---------------------------- MODULE Spec2Model ----------------------------
(***************************************************************************)
(* A model of the Fedora 3 migration tool: the stage-1 file mover          *)
(* (src/src/migrate), the RELS-EXT reader and the object graph             *)
(* (src/src/csv/object.rs) and the CSV projectors (src/src/csv/rows.rs).   *)
(*                                                                         *)
(* Strings the program compares character by character (PIDs, datastream   *)
(* and version ids, parents) are sequences of one-character strings;       *)
(* strings it only tests for equality (content models, element names) are  *)
(* TLA+ strings.                                                           *)
(***************************************************************************)
EXTENDS Integers, Sequences, FiniteSets, TLC

VARIABLES
    \* ---- graph assembly and CSV projection (csv::generate_csvs) ----
    objectFiles,    \* the files of <input>/objects, as enumerated
    results,        \* per file: the outcome of its parse task
    phase,          \* where generate_csvs is
    abortCause,     \* why the process exited, "" while it has not
    objectMap,      \* ObjectMap: sequence of [key, value], sorted by key
    nodesCsv,       \* rows of nodes.csv, or NoCsv
    mediaCsv,       \* rows of media.csv, or NoCsv
    revisionsCsv,   \* rows of media_revisions.csv, or NoCsv
    filesCsv,       \* rows of files.csv, or NoCsv
    \* ---- the RELS-EXT event loop of one object (RelsExt::from_reader) ----
    relsPhase,      \* "reading" | "eof" | "row" | "panic"
    elements,       \* the elements read so far, in document order
    rels_ext,       \* the RelsExt being filled
    object,         \* the Object built at Eof
    nodeRow,        \* the NodeRow built from it
    \* ---- stage-1 migration (migrate::migrate_data_from_fedora) ----
    copy,           \* --move absent
    crossFs,        \* source and destination on different filesystems
    checksums,      \* the --checksum flag of run 1 and of run 2
    srcFs,          \* the Fedora stores: file -> NoFile or [content, mtime]
    dstFs,          \* the output directory: file -> NoFile or [content, mtime]
    initialFs,      \* [src, dst] before the first run
    run,            \* which run is executing
    stage,          \* "objects" | "managed" | "inline" | "finished" | "idle"
    tally,          \* per run: file -> MigrationResult, or "none" (not listed)
    beforeRun,      \* dstFs when the current run started
    \* ---- the scripts of csv::execute_scripts (scripts::run_scripts) ----
    scriptMap,      \* the pids of the ObjectMap, in key order
    scripts,        \* script -> [kind, sort_by]: what its functions do
    scriptPhase,    \* "executing" | "aborted" | "idle"
    scriptPc,       \* script -> where its execute_script / create_csv is
    objectIndex,    \* script -> index of the object of the next rows call
    statements,     \* script -> the statements its running rows call has left
    array,          \* script -> the array its running rows call is building
    collected,      \* script -> the rows its rows calls have returned so far
    scriptResult,   \* script -> the (Header, Rows) of execute_script
    scriptCsv,      \* script -> its CSV file: [written, header, rows]
    callLog,        \* script -> the calls into the script, begun and returned
    \* ---- the identification of one store file (identifiers::identify_files) ----
    identStore,     \* "objectStore" | "datastreamStore" | "idle"
    parts,          \* what the name was made from: [ns, local, dsid, version], or <<>>
    fileName,       \* the file name, as on disk
    identStep,      \* "found" | "identified" | "idle"
    identifier,     \* None, or Some(identifier) of from_path
    \* ---- inline extraction of one object file (inline::extract_inline_datastreams) ----
    foxmlDoc,       \* the FOXML: [pid, datastreams]
    inlinePc,       \* "pid" | "datastream" | "version" | "content" | "done" | "panic" | "hang" | "idle"
    reader,         \* the position of the Reader in the events of the FOXML
    inlinePid,      \* the PID captured
    inlineDsid,     \* the id of the inline datastream the reader is in
    inlineVersion,  \* the id of the datastream version the reader is in
    inlineResults,  \* DatastreamContentMap: set of [pid, dsid, version, content]
    \* ---- managed-datastream migration (migrate_managed_datastreams) ----
    datastreamStore,    \* the names of the files of the Fedora datastreamStore
    foxmlObjects,       \* FoxmlPathMap: the parsed FOXML, one per PID
    managedPc,          \* "identify" | "datastreams" | "unreferenced" | "files" | "migrate" | "done" | "idle"
    managedFiles,       \* DatastreamPathMap of the store: set of [identifier, path]
    managedDatastreams, \* DatastreamPathMap of the FOXML: set of [identifier, path]
    orphaned,           \* the identifiers warned about as orphaned
    pathMap,            \* PathMap given to migrate_files: set of [src, dest]
    moverCalls,         \* the calls of the file action so far: sequence of [src, dest]
    stagedPaths,        \* the destinations written
    \* ---- the process-wide path roots (csv::valid_source_directory) ----
    dirTree,            \* per input path: which of the directories exist
    OBJECTS_DIRECTORY,  \* None, or Some(path) of the objects directory
    DATASTREAMS_DIRECTORY,\* None, or Some(path) of the datastreams directory
    dirCalls,           \* the number of calls of valid_source_directory made
    dirLast,            \* the last call: [path, result, objects, datastreams], the roots as it was entered
    \* ---- the file walker (files) ----
    walkEntries,        \* the entries WalkDir yields: sequence of entry kinds
    walkSeen,           \* per entry: "pending", "filtered", "path" or "error"
    walkPc,             \* "walking" | "returned" | "panicked" | "idle"
    walkFiles,          \* the entries whose paths are in the list returned
    \* ---- the lock of the object map during run_scripts ----
    sharedObjects,      \* the PIDs of the ObjectMap behind the Arc<RwLock<..>>
    rwLock,             \* the RwLock: [readers, writer]
    scriptTask,         \* per script: "queued", "executing", "host", "executed" or "written"
    hostCalls,          \* per script: the calls of object(pid) its statements still make
    hostResult,         \* per script: None, or Some of the last result of object(pid)
    lockPc,             \* "running" | "joined" | "idle"
    \* ---- two executions of identify_files on one objectStore ----
    storeFiles,         \* the names of the files of the objectStore
    taskDone,           \* per execution: the files whose task has run
    pathMaps,           \* per execution: the BTreeMap of identifiers to paths, as a sequence in key order
    failedPaths,        \* per execution: the files from_path did not identify
    returned,           \* per execution: whether identify_files has returned
    \* ---- the four projectors of generate_csvs on the thread pool ----
    poolPc,             \* generate_csvs: "spawning" | "joining" | "returned" | "exited"
    taskPc,             \* per projector: "unspawned" | "queued" | "rows" | "writing" | "created" | "finished"
    csvRows,            \* per projector: the rows its iterator yields
    csvFiles,           \* per projector: its file in the destination, [exists, open, rows]
    bars                \* per projector: its progress bar, "none" | "active" | "done"

graphVars == <<objectFiles, results, phase, abortCause, objectMap,
               nodesCsv, mediaCsv, revisionsCsv, filesCsv>>
relsVars == <<relsPhase, elements, rels_ext, object, nodeRow>>
migrateVars == <<copy, crossFs, checksums, srcFs, dstFs, initialFs, run, stage,
                 tally, beforeRun>>
scriptVars == <<scriptMap, scripts, scriptPhase, scriptPc, objectIndex, statements,
                array, collected, scriptResult, scriptCsv, callLog>>
identVars == <<identStore, parts, fileName, identStep, identifier>>
inlineVars == <<foxmlDoc, inlinePc, reader, inlinePid, inlineDsid, inlineVersion,
                inlineResults>>
managedVars == <<datastreamStore, foxmlObjects, managedPc, managedFiles, managedDatastreams,
                 orphaned, pathMap, moverCalls, stagedPaths>>
dirVars == <<dirTree, OBJECTS_DIRECTORY, DATASTREAMS_DIRECTORY, dirCalls, dirLast>>
walkVars == <<walkEntries, walkSeen, walkPc, walkFiles>>
lockVars == <<sharedObjects, rwLock, scriptTask, hostCalls, hostResult, lockPc>>
storeVars == <<storeFiles, taskDone, pathMaps, failedPaths, returned>>
poolVars == <<poolPc, taskPc, csvRows, csvFiles, bars>>
graphRest == <<relsVars, migrateVars, scriptVars, identVars, inlineVars, managedVars,
    dirVars,
    walkVars,
    lockVars,
    storeVars,
    poolVars>>
relsRest == <<graphVars, migrateVars, scriptVars, identVars, inlineVars, managedVars,
    dirVars,
    walkVars,
    lockVars,
    storeVars,
    poolVars>>
migrateRest == <<graphVars, relsVars, scriptVars, identVars, inlineVars, managedVars,
    dirVars,
    walkVars,
    lockVars,
    storeVars,
    poolVars>>
scriptRest == <<graphVars, relsVars, migrateVars, identVars, inlineVars, managedVars,
    dirVars,
    walkVars,
    lockVars,
    storeVars,
    poolVars>>
identRest == <<graphVars, relsVars, migrateVars, scriptVars, inlineVars, managedVars,
    dirVars,
    walkVars,
    lockVars,
    storeVars,
    poolVars>>
inlineRest == <<graphVars, relsVars, migrateVars, scriptVars, identVars, managedVars,
    dirVars,
    walkVars,
    lockVars,
    storeVars,
    poolVars>>
managedRest == <<graphVars, relsVars, migrateVars, scriptVars, identVars, inlineVars,
    dirVars,
    walkVars,
    lockVars,
    storeVars,
    poolVars>>
dirRest == <<graphVars, relsVars, migrateVars, scriptVars, identVars, inlineVars, managedVars,
    walkVars,
    lockVars,
    storeVars,
    poolVars>>
walkRest == <<graphVars, relsVars, migrateVars, scriptVars, identVars, inlineVars, managedVars,
    dirVars,
    lockVars,
    storeVars,
    poolVars>>
lockRest == <<graphVars, relsVars, migrateVars, scriptVars, identVars, inlineVars, managedVars,
    dirVars,
    walkVars,
    storeVars,
    poolVars>>
storeRest == <<graphVars, relsVars, migrateVars, scriptVars, identVars, inlineVars, managedVars,
    dirVars,
    walkVars,
    lockVars,
    poolVars>>
poolRest == <<graphVars, relsVars, migrateVars, scriptVars, identVars, inlineVars, managedVars,
    dirVars,
    walkVars,
    lockVars,
    storeVars>>
vars == <<graphVars, relsVars, migrateVars, scriptVars, identVars, inlineVars, managedVars,
    dirVars,
    walkVars,
    lockVars,
    storeVars,
    poolVars>>

-----------------------------------------------------------------------------
(* Sequences *)

Range(s) == {s[i] : i \in 1..Len(s)}

RECURSIVE Concat(_)
Concat(ss) == IF ss = <<>> THEN <<>> ELSE Head(ss) \o Concat(Tail(ss))

Count(s, v) == Cardinality({i \in 1..Len(s) : s[i] = v})

Last(s) == s[Len(s)]

IsPrefix(p, s) == Len(p) <= Len(s) /\ SubSeq(s, 1, Len(p)) = p

-----------------------------------------------------------------------------
(* Characters *)

Digits == {"0", "1", "2", "3", "4", "5", "6", "7", "8", "9"}

DigitValue(c) ==
    CASE c = "0" -> 0 [] c = "1" -> 1 [] c = "2" -> 2 [] c = "3" -> 3
      [] c = "4" -> 4 [] c = "5" -> 5 [] c = "6" -> 6 [] c = "7" -> 7
      [] c = "8" -> 8 [] c = "9" -> 9

\* The code point of a character: what char::cmp compares.
CharCode(c) ==
    CASE c \in Digits -> 48 + DigitValue(c)
      [] c = "-" -> 45 [] c = "." -> 46 [] c = ":" -> 58 [] c = "_" -> 95
      [] c = "a" -> 97 [] c = "b" -> 98 [] c = "d" -> 100 [] c = "e" -> 101
      [] c = "f" -> 102 [] c = "m" -> 109 [] c = "o" -> 111 [] c = "r" -> 114
      [] c = "s" -> 115 [] c = "t" -> 116 [] c = "v" -> 118 [] c = "x" -> 120
      [] c = "y" -> 121 [] c = "|" -> 124
      [] c = "B" -> 66 [] c = "C" -> 67 [] c = "D" -> 68 [] c = "E" -> 69
      [] c = "J" -> 74 [] c = "L" -> 76 [] c = "O" -> 79 [] c = "R" -> 82
      [] c = "S" -> 83 [] c = "T" -> 84 [] c = "X" -> 88
      [] c = " " -> 32 [] c = "\t" -> 9 [] c = "%" -> 37 [] c = "/" -> 47
      [] c = "A" -> 65 [] c = "F" -> 70 [] c = "M" -> 77
      [] c = "i" -> 105 [] c = "n" -> 110


-----------------------------------------------------------------------------
(* alphanumeric_sort::compare_str, the order of Pid, Datastream,           *)
(* DatastreamVersion and of the parents: characters are compared by code   *)
(* point, except that two runs of digits are compared by their value as    *)
(* numbers and, when the values are equal, by their number of digits.      *)

RECURSIVE DigitRun(_)
DigitRun(s) ==
    IF s # <<>> /\ Head(s) \in Digits THEN <<Head(s)>> \o DigitRun(Tail(s)) ELSE <<>>

RECURSIVE DigitsValue(_, _)
DigitsValue(acc, s) ==
    IF s = <<>> THEN acc ELSE DigitsValue(acc * 10 + DigitValue(Head(s)), Tail(s))

\* The branch taken on two characters that are not both digits.
CompareChars(ca, cb, last_is_number) ==
    LET wide == (CharCode(ca) > 255) # (CharCode(cb) > 255)
    IN  IF CharCode(ca) > CharCode(cb)
        THEN (IF last_is_number /\ wide THEN "Less" ELSE "Greater")
        ELSE (IF last_is_number /\ wide THEN "Greater" ELSE "Less")

\* compare_str with the digit count left out: "01" and "1" compare Equal.
RECURSIVE CompareValueOnly(_, _, _)
CompareValueOnly(a, b, last_is_number) ==
    IF a = <<>> THEN (IF b = <<>> THEN "Equal" ELSE "Less")
    ELSE IF b = <<>> THEN "Greater"
    ELSE IF Head(a) \in Digits /\ Head(b) \in Digits
    THEN LET ra == DigitRun(a)
             rb == DigitRun(b)
             da == DigitsValue(0, ra)
             db == DigitsValue(0, rb)
         IN  IF da < db THEN "Less"
             ELSE IF da > db THEN "Greater"
             ELSE CompareValueOnly(SubSeq(a, Len(ra) + 1, Len(a)),
                                   SubSeq(b, Len(rb) + 1, Len(b)), TRUE)
    ELSE IF Head(a) = Head(b) THEN CompareValueOnly(Tail(a), Tail(b), FALSE)
    ELSE CompareChars(Head(a), Head(b), last_is_number)

RECURSIVE CompareFrom(_, _, _)
CompareFrom(a, b, last_is_number) ==
    IF a = <<>> THEN (IF b = <<>> THEN "Equal" ELSE "Less")
    ELSE IF b = <<>> THEN "Greater"
    ELSE IF Head(a) \in Digits /\ Head(b) \in Digits
    THEN LET ra == DigitRun(a)
             rb == DigitRun(b)
             da == DigitsValue(0, ra)
             db == DigitsValue(0, rb)
             dc == Len(ra) - Len(rb)
         IN  IF da < db THEN "Less"
             ELSE IF da > db THEN "Greater"
             ELSE IF dc > 0 THEN "Greater"
             ELSE IF dc < 0 THEN "Less"
             ELSE CompareFrom(SubSeq(a, Len(ra) + 1, Len(a)),
                              SubSeq(b, Len(rb) + 1, Len(b)), TRUE)
    ELSE IF Head(a) = Head(b) THEN CompareFrom(Tail(a), Tail(b), FALSE)
    ELSE CompareChars(Head(a), Head(b), last_is_number)

compare_str(a, b) == CompareFrom(a, b, FALSE)

\* Vec::sort_by on records ordered by their id: a stable sort.
RECURSIVE InsertSorted(_, _)
InsertSorted(sorted, x) ==
    IF sorted = <<>> THEN <<x>>
    ELSE IF compare_str(x.id, Head(sorted).id) = "Less"
    THEN <<x>> \o sorted
    ELSE <<Head(sorted)>> \o InsertSorted(Tail(sorted), x)

RECURSIVE SortFrom(_, _)
SortFrom(sorted, rest) ==
    IF rest = <<>> THEN sorted
    ELSE SortFrom(InsertSorted(sorted, Head(rest)), Tail(rest))

\* The sequence left in the order it has.
SortByNothing(s) == s

\* Vec::sort_by on the alphanumeric order of the ids.
sort_by(s) == SortFrom(<<>>, s)

\* Vec<String>::sort_by(compare_str).
sort_strings(s) ==
    LET sorted == sort_by([i \in 1..Len(s) |-> [id |-> s[i]]])
    IN  [i \in 1..Len(s) |-> sorted[i].id]

-----------------------------------------------------------------------------
(* Option<T>: <<>> is None, <<v>> is Some(v). *)

None == <<>>
Some(v) == <<v>>

-----------------------------------------------------------------------------
(* RelsExt (src/src/csv/object.rs).  An element of the document is         *)
(* [name, local, resource, text]: its qualified name, its local name as    *)
(* characters, its rdf:resource / rdf:about value after the 12 bytes of    *)
(* "info:fedora/" (None when the attribute is absent) and its first        *)
(* non-blank text (<<>> when it has none).                                 *)

\* The elements pushed onto a list, by qualified name.
ListField(name) ==
    CASE name = "fedora-model:hasModel" -> "hasModel"
      [] name = "fedora:fedoraRelationship" -> "fedoraRelationship"
      [] name = "fedora:isPartOf" -> "isPartOf"
      [] name = "fedora:hasPart" -> "hasPart"
      [] name = "fedora:isConstituentOf" -> "isConstituentOf"
      [] name = "fedora:hasConstituent" -> "hasConstituent"
      [] name = "fedora:isMemberOf" -> "isMemberOf"
      [] name = "fedora:hasMember" -> "hasMember"
      [] name = "fedora:isSubsetOf" -> "isSubsetOf"
      [] name = "fedora:hasSubset" -> "hasSubset"
      [] name = "fedora:isMemberOfCollection" -> "isMemberOfCollection"
      [] name = "fedora:hasCollectionMember" -> "hasCollectionMember"
      [] name = "fedora:isDerivationOf" -> "isDerivationOf"
      [] name = "fedora:hasDerivation" -> "hasDerivation"
      [] name = "fedora:isDependentOf" -> "isDependentOf"
      [] name = "fedora:hasDependent" -> "hasDependent"
      [] name = "fedora:isDescriptionOf" -> "isDescriptionOf"
      [] name = "fedora:hasDescription" -> "hasDescription"
      [] name = "fedora:isMetadataFor" -> "isMetadataFor"
      [] name = "fedora:hasMetadata" -> "hasMetadata"
      [] name = "fedora:isAnnotationOf" -> "isAnnotationOf"
      [] name = "fedora:hasAnnotation" -> "hasAnnotation"
      [] name = "fedora:hasEquivalent" -> "hasEquivalent"
      [] OTHER -> ""

\* RelsExt::default()
DefaultRelsExt ==
    [about |-> <<>>,
     hasModel |-> <<>>, fedoraRelationship |-> <<>>, hasAnnotation |-> <<>>,
     hasCollectionMember |-> <<>>, hasConstituent |-> <<>>, hasDependent |-> <<>>,
     hasDerivation |-> <<>>, hasDescription |-> <<>>, hasEquivalent |-> <<>>,
     hasMember |-> <<>>, hasMetadata |-> <<>>, hasPart |-> <<>>, hasSubset |-> <<>>,
     isAnnotationOf |-> <<>>, isConstituentOf |-> <<>>, isDependentOf |-> <<>>,
     isDerivationOf |-> <<>>, isDescriptionOf |-> <<>>, isMemberOf |-> <<>>,
     isMemberOfCollection |-> <<>>, isMetadataFor |-> <<>>, isPartOf |-> <<>>,
     isSubsetOf |-> <<>>,
     deferDerivatives |-> None, generateHOCR |-> None, generateOCR |-> None,
     isPageNumber |-> None, isPageOf |-> None, isSection |-> None,
     isSequenceNumber |-> None, isSequenceNumberOf |-> <<>>]

ToLower(c) ==
    CASE c = "T" -> "t" [] c = "R" -> "r" [] c = "U" -> "u" [] c = "E" -> "e"
      [] c = "F" -> "f" [] c = "A" -> "a" [] c = "L" -> "l" [] c = "S" -> "s"
      [] OTHER -> c

to_lowercase(s) == [i \in 1..Len(s) |-> ToLower(s[i])]

\* str::parse::<bool>(): None is the Err the caller unwraps.
ParseBool(s) ==
    IF s = <<"t", "r", "u", "e">> THEN Some(TRUE)
    ELSE IF s = <<"f", "a", "l", "s", "e">> THEN Some(FALSE)
    ELSE None

\* str::parse::<usize>(): an optional '+', then one or more digits and nothing
\* else.  None is the Err the caller unwraps.
ParseUsize(s) ==
    LET body == IF s # <<>> /\ Head(s) = "+" THEN Tail(s) ELSE s
    IN  IF body # <<>> /\ \A i \in 1..Len(body) : body[i] \in Digits
        THEN Some(DigitsValue(0, body))
        ELSE None

\* str::replacen(from, to, 1)
RECURSIVE ReplaceFirst(_, _, _)
ReplaceFirst(s, from, to) ==
    IF s = <<>> THEN <<>>
    ELSE IF Head(s) = from THEN <<to>> \o Tail(s)
    ELSE <<Head(s)>> \o ReplaceFirst(Tail(s), from, to)

IsSequenceNumberOfPrefix ==
    <<"i", "s", "S", "e", "q", "u", "e", "n", "c", "e", "N", "u", "m", "b", "e", "r", "O", "f">>

Panicked(r) == [panic |-> TRUE, rels |-> r]
Parsed(r) == [panic |-> FALSE, rels |-> r]

\* RelsExt::is_sequence_number_of, with the push of its caller: any element of
\* another name whose local name starts with isSequenceNumberOf.
is_sequence_number_of(r, e) ==
    IF IsPrefix(IsSequenceNumberOfPrefix, e.local)
    THEN LET rest == SubSeq(e.local, Len(IsSequenceNumberOfPrefix) + 1, Len(e.local))
             pid == ReplaceFirst(rest, "_", ":")
             number == ParseUsize(e.text)
         IN  IF e.text = <<>> \/ number = None
             THEN Panicked(r)
             ELSE Parsed([r EXCEPT !.isSequenceNumberOf = Append(@, <<pid, number[1]>>)])
    ELSE Parsed(r)

\* An islandora integer element: get_text, then text.parse().unwrap().
SetNumber(r, field, e) ==
    IF e.text = <<>> \/ ParseUsize(e.text) = None
    THEN Panicked(r)
    ELSE Parsed([r EXCEPT ![field] = ParseUsize(e.text)])

\* An islandora boolean element: get_text, to_lowercase, parse().unwrap().
SetBool(r, field, e) ==
    IF e.text = <<>> \/ ParseBool(to_lowercase(e.text)) = None
    THEN Panicked(r)
    ELSE Parsed([r EXCEPT ![field] = ParseBool(to_lowercase(e.text))])

\* RelsExt::process_element.  get_attribute_without_prefix unwraps the
\* attribute, so an element without it panics.
process_element(r, e) ==
    IF e.name = "rdf:Description"
    THEN IF e.resource = None THEN Panicked(r)
         ELSE Parsed([r EXCEPT !.about = e.resource[1]])
    ELSE IF ListField(e.name) # ""
    THEN IF e.resource = None THEN Panicked(r)
         ELSE Parsed([r EXCEPT ![ListField(e.name)] = Append(@, e.resource[1])])
    ELSE IF e.name = "islandora:deferDerivatives" THEN SetBool(r, "deferDerivatives", e)
    ELSE IF e.name = "islandora:generate_hocr" THEN SetBool(r, "generateHOCR", e)
    ELSE IF e.name = "islandora:generate_ocr" THEN SetBool(r, "generateOCR", e)
    ELSE IF e.name = "islandora:isPageNumber" THEN SetNumber(r, "isPageNumber", e)
    ELSE IF e.name = "islandora:isPageOf"
    THEN IF e.resource = None THEN Panicked(r)
         ELSE Parsed([r EXCEPT !.isPageOf = e.resource])
    ELSE IF e.name = "islandora:isSection" THEN SetNumber(r, "isSection", e)
    ELSE IF e.name = "islandora:isSequenceNumber" THEN SetNumber(r, "isSequenceNumber", e)
    ELSE is_sequence_number_of(r, e)

\* RelsExt::from_reader: the event loop over a whole document.
RECURSIVE ReadFrom(_, _)
ReadFrom(r, es) ==
    IF es = <<>> THEN Parsed(r)
    ELSE LET next == process_element(r, Head(es))
         IN  IF next.panic THEN next ELSE ReadFrom(next.rels, Tail(es))

from_reader(es) == ReadFrom(DefaultRelsExt, es)

-----------------------------------------------------------------------------
(* Object (src/src/csv/object.rs) and NodeRow (src/src/csv/rows.rs).  The   *)
(* fields copied unchanged from the FOXML properties into the row (label,   *)
(* owner, state, dates) are left out.                                       *)

\* Object::model: hasModel.first().unwrap(); None is the panic.
ModelOfRelsExt(r) == IF r.hasModel = <<>> THEN None ELSE Some(Head(r.hasModel))

\* The lists Object::parents collects, in its order.
ParentLists(r) ==
    <<r.isPartOf, r.isConstituentOf, r.isMemberOf, r.isSubsetOf,
      r.isMemberOfCollection, r.isDerivationOf, r.isDependentOf,
      r.isDescriptionOf, r.isMetadataFor, r.isAnnotationOf>>

\* Object::parents without the sort.
ParentsUnsorted(r) == Concat(ParentLists(r))

\* Object::parents
ParentsOfRelsExt(r) == sort_strings(Concat(ParentLists(r)))

\* The weight of an object: isPageNumber ?? isSequenceNumber ??
\* isSequenceNumberOf[0].1
WeightOfRelsExt(r) ==
    IF r.isPageNumber # None THEN r.isPageNumber
    ELSE IF r.isSequenceNumber # None THEN r.isSequenceNumber
    ELSE IF r.isSequenceNumberOf # <<>> THEN Some(Head(r.isSequenceNumberOf)[2])
    ELSE None

\* Model::try_from with every unknown content model taken for a Binary.
ModelTryFromLenient(value) == "Binary"

\* MODEL_MAP: "" is the Err of Model::try_from.
ModelTryFrom(value) ==
    CASE value = "islandora:collectionCModel" -> "Collection"
      [] value = "islandora:sp_basic_image" -> "BasicImage"
      [] value = "islandora:sp_large_image_cmodel" -> "LargeImage"
      [] value = "islandora:sp-audioCModel" -> "Audio"
      [] value = "islandora:sp_videoCModel" -> "Video"
      [] value = "islandora:sp_pdf" -> "PDF"
      [] value = "islandora:bookCModel" -> "Book"
      [] value = "islandora:pageCModel" -> "Page"
      [] value = "islandora:newspaperCModel" -> "Newspaper"
      [] value = "islandora:newspaperIssueCModel" -> "NewspaperIssue"
      [] value = "islandora:newspaperPageCModel" -> "NewspaperPage"
      [] value = "islandora:compoundCModel" -> "Compound"
      [] value = "islandora:binaryCModel" -> "Binary"
      [] value = "islandora:binaryObjectCModel" -> "Binary"
      [] OTHER -> ""

\* Model::identifier
ModelIdentifier(model) ==
    CASE model = "Audio" -> "http://purl.org/coar/resource_type/c_18cc"
      [] model = "BasicImage" -> "http://purl.org/coar/resource_type/c_c513"
      [] model = "Binary" -> "http://purl.org/coar/resource_type/c_1843"
      [] model = "Book" -> "https://schema.org/Book"
      [] model = "Collection" -> "http://purl.org/dc/dcmitype/Collection"
      [] model = "Compound" -> "http://purl.org/dc/dcmitype/Collection"
      [] model = "LargeImage" -> "http://purl.org/coar/resource_type/c_c513"
      [] model = "Newspaper" -> "https://schema.org/Book"
      [] model = "NewspaperIssue" -> "https://schema.org/PublicationIssue"
      [] model = "NewspaperPage" -> "http://id.loc.gov/ontologies/bibframe/part"
      [] model = "Page" -> "http://id.loc.gov/ontologies/bibframe/part"
      [] model = "PDF" -> "https://schema.org/DigitalDocument"
      [] model = "Video" -> "http://purl.org/coar/resource_type/c_12ce"

\* DisplayHint::from(model).as_str()
DisplayHintOf(model) ==
    IF model \in {"LargeImage", "NewspaperPage", "Page"}
    THEN "http://openseadragon.github.io"
    ELSE IF model = "PDF" THEN "http://mozilla.github.io/pdf.js"
    ELSE ""

DigitChar(d) ==
    CASE d = 0 -> "0" [] d = 1 -> "1" [] d = 2 -> "2" [] d = 3 -> "3"
      [] d = 4 -> "4" [] d = 5 -> "5" [] d = 6 -> "6" [] d = 7 -> "7"
      [] d = 8 -> "8" [] d = 9 -> "9"

\* usize::to_string
RECURSIVE to_string(_)
to_string(n) ==
    IF n < 10 THEN <<DigitChar(n)>> ELSE to_string(n \div 10) \o <<DigitChar(n % 10)>>

\* [String]::join(separator)
RECURSIVE join(_, _)
join(ss, separator) ==
    IF ss = <<>> THEN <<>>
    ELSE IF Len(ss) = 1 THEN Head(ss)
    ELSE Head(ss) \o <<separator>> \o join(Tail(ss), separator)

\* The weight column with "0" written for an object without a weight.
WeightColumnZero(weight) == IF weight = None THEN <<"0">> ELSE to_string(weight[1])

\* The weight column: object.weight.map_or("", to_string)
WeightColumn(weight) == IF weight = None THEN <<>> ELSE to_string(weight[1])

\* The parents column: object.parents.join("|")
ParentsColumn(parents) == join(parents, "|")

\* NodeRow::new: None is the panic on an unknown content model.
NodeRowNew(o) ==
    IF ModelTryFrom(o.model) = "" THEN None
    ELSE Some([pid |-> o.pid,
               weight |-> WeightColumn(o.weight),
               model |-> ModelIdentifier(ModelTryFrom(o.model)),
               display_hint |-> DisplayHintOf(ModelTryFrom(o.model)),
               parents |-> ParentsColumn(o.parents)])

\* The fields Object::new derives from the RELS-EXT (model, parents) and the
\* weight; called only when hasModel is not empty.
ObjectOfRelsExt(pid, r) ==
    [pid |-> pid,
     model |-> ModelOfRelsExt(r)[1],
     parents |-> ParentsOfRelsExt(r),
     weight |-> WeightOfRelsExt(r)]

-----------------------------------------------------------------------------
(* Object::from_path and Object::new on a FOXML file.  A file is            *)
(*   [readable, valid, foxml]; a Foxml is [pid, datastreams]; a datastream  *)
(*   is [id, control_group, versions]; a version is [id, staged, elements], *)
(*   where staged says that datastream_paths has its identifier and         *)
(*   elements is the content of the staged file (read for RELS-EXT only).   *)

RelsExtId == <<"R", "E", "L", "S", "-", "E", "X", "T">>
ObjId == <<"O", "B", "J">>
SystemPrefix == <<"f", "e", "d", "o", "r", "a", "-", "s", "y", "s", "t", "e", "m", ":">>
ContentModel == "fedora-system:ContentModel-3.0"

\* A panic: the hook logs it and exits the process.
Panic(cause) == [outcome |-> "panic", cause |-> cause, value |-> <<>>]
\* An Err(FoxmlError).
Err(cause) == [outcome |-> "err", cause |-> cause, value |-> <<>>]
Ok(value) == [outcome |-> "ok", cause |-> "", value |-> value]

\* slice::first / Iterator::find: the least index of a set of indexes.
First(S) == CHOOSE i \in S : \A j \in S : i <= j

\* Object::rels_ext
ObjectRelsExt(foxml) ==
    LET found == {i \in 1..Len(foxml.datastreams) : foxml.datastreams[i].id = RelsExtId}
    IN  IF found = {} THEN Panic("no RELS-EXT")
        ELSE LET d == foxml.datastreams[First(found)]
                 v == Last(d.versions)
             IN  IF d.control_group \in {"E", "R"} THEN Panic("unimplemented")
                 ELSE IF ~v.staged THEN Panic("missing path")
                 ELSE IF from_reader(v.elements).panic THEN Panic("RELS-EXT")
                 ELSE Ok(from_reader(v.elements).rels)

\* The first datastream version of Datastream::versions with the oldest id
\* taken for the latest.
OldestVersion(d) == Head(d.versions)

\* Datastream::latest / versions.last().unwrap()
LatestVersion(d) == Last(d.versions)

\* Object::create_datastream: the versions sorted by id.
CreateDatastream(d) ==
    [id |-> d.id,
     versions |-> sort_by([i \in 1..Len(d.versions) |-> [id |-> d.versions[i].id]])]

\* The mapping of a FOXML datastream with E and R carried forward.
DatastreamPanicNever(d) == ""

\* Whether mapping a FOXML datastream panics, and why.
DatastreamPanic(d) ==
    IF d.control_group \in {"E", "R"} THEN "unimplemented"
    ELSE IF \E i \in 1..Len(d.versions) : ~d.versions[i].staged THEN "missing path"
    ELSE ""

\* Object::new
ObjectNewFoxml(foxml) ==
    LET read == ObjectRelsExt(foxml)
        bad == {i \in 1..Len(foxml.datastreams) : DatastreamPanic(foxml.datastreams[i]) # ""}
    IN  IF read.outcome = "panic" THEN read
        ELSE IF ModelOfRelsExt(read.value) = None THEN Panic("no hasModel")
        ELSE IF bad # {} THEN Panic(DatastreamPanic(foxml.datastreams[First(bad)]))
        ELSE Ok([pid |-> foxml.pid,
                 model |-> ModelOfRelsExt(read.value)[1],
                 parents |-> ParentsOfRelsExt(read.value),
                 weight |-> WeightOfRelsExt(read.value),
                 datastreams |->
                     sort_by([i \in 1..Len(foxml.datastreams) |->
                                 CreateDatastream(foxml.datastreams[i])])])

\* Object::from_path
ObjectFromPath(file) ==
    IF ~file.readable THEN Panic("read")
    ELSE IF ~file.valid THEN Err("deserialize")
    ELSE ObjectNewFoxml(file.foxml)

is_system_object(o) == IsPrefix(SystemPrefix, o.pid)

is_content_model(o) == o.model = ContentModel

\* The filter closure of ObjectMap::from_path on the result of the map
\* closure: its unwrap panics on an Err.
FilterResult(result) ==
    IF result.outcome = "panic" THEN result
    ELSE IF result.outcome = "err" THEN Panic(result.cause)
    ELSE IF is_system_object(result.value) \/ is_content_model(result.value)
    THEN [outcome |-> "filtered", cause |-> "", value |-> <<>>]
    ELSE result

\* BTreeMap::insert with every entry appended at the end.
BTreeMapPush(map, key, value) == Append(map, [id |-> key, value |-> value])

\* BTreeMap::insert on a map kept as a sequence of [id, value] in key order:
\* an entry whose key compares Equal keeps its key and takes the new value.
RECURSIVE BTreeMapInsert(_, _, _)
BTreeMapInsert(map, key, value) ==
    IF map = <<>> THEN <<[id |-> key, value |-> value]>>
    ELSE IF compare_str(key, Head(map).id) = "Less"
    THEN <<[id |-> key, value |-> value]>> \o map
    ELSE IF compare_str(key, Head(map).id) = "Equal"
    THEN <<[id |-> Head(map).id, value |-> value]>> \o Tail(map)
    ELSE <<Head(map)>> \o BTreeMapInsert(Tail(map), key, value)

\* collect::<Result<BTreeMap, _>>() over the kept results, in file order.
RECURSIVE CollectFrom(_, _)
CollectFrom(map, rs) ==
    IF rs = <<>> THEN map
    ELSE IF Head(rs).outcome = "ok"
    THEN CollectFrom(BTreeMapInsert(map, Head(rs).value.pid, Head(rs).value), Tail(rs))
    ELSE CollectFrom(map, Tail(rs))

\* ObjectMap::objects
Objects(map) == [i \in 1..Len(map) |-> map[i].value]

VersionRow(o, d, v) == [pid |-> o.pid, dsid |-> d.id, version |-> v.id]

\* ObjectMap::versions, as the rows FileRow::csv writes.
Versions(map) ==
    Concat([i \in 1..Len(map) |->
        Concat([j \in 1..Len(map[i].value.datastreams) |->
            [k \in 1..Len(map[i].value.datastreams[j].versions) |->
                VersionRow(map[i].value, map[i].value.datastreams[j],
                           map[i].value.datastreams[j].versions[k])]])])

\* ObjectMap::latest_versions, as the rows MediaRow::csv writes.
LatestVersions(map) ==
    Concat([i \in 1..Len(map) |->
        [j \in 1..Len(map[i].value.datastreams) |->
            VersionRow(map[i].value, map[i].value.datastreams[j],
                       LatestVersion(map[i].value.datastreams[j]))]])

\* ObjectMap::previous_versions (rev, skip(1), rev), as the rows
\* MediaRow::revisions_csv writes.
PreviousVersions(map) ==
    Concat([i \in 1..Len(map) |->
        Concat([j \in 1..Len(map[i].value.datastreams) |->
            [k \in 1..(Len(map[i].value.datastreams[j].versions) - 1) |->
                VersionRow(map[i].value, map[i].value.datastreams[j],
                           map[i].value.datastreams[j].versions[k])]])])

-----------------------------------------------------------------------------
(* The values the other specifications hold while one of them runs. *)

NoCsv == [written |-> FALSE, rows |-> <<>>]
Written(rows) == [written |-> TRUE, rows |-> rows]
NoObject == [pid |-> <<>>]
NoRow == [pid |-> <<>>]
NoFile == <<>>

GraphIdle ==
    /\ objectFiles = <<>>
    /\ results = <<>>
    /\ phase = "idle"
    /\ abortCause = ""
    /\ objectMap = <<>>
    /\ nodesCsv = NoCsv
    /\ mediaCsv = NoCsv
    /\ revisionsCsv = NoCsv
    /\ filesCsv = NoCsv

RelsIdle ==
    /\ relsPhase = "idle"
    /\ elements = <<>>
    /\ rels_ext = DefaultRelsExt
    /\ object = NoObject
    /\ nodeRow = NoRow

MigrateIdle ==
    /\ copy = TRUE
    /\ crossFs = FALSE
    /\ checksums = <<FALSE, FALSE>>
    /\ srcFs = <<>>
    /\ dstFs = <<>>
    /\ initialFs = <<>>
    /\ run = 0
    /\ stage = "idle"
    /\ tally = <<>>
    /\ beforeRun = <<>>

ScriptIdle ==
    /\ scriptMap = <<>>
    /\ scripts = <<>>
    /\ scriptPhase = "idle"
    /\ scriptPc = <<>>
    /\ objectIndex = <<>>
    /\ statements = <<>>
    /\ array = <<>>
    /\ collected = <<>>
    /\ scriptResult = <<>>
    /\ scriptCsv = <<>>
    /\ callLog = <<>>

IdentIdle ==
    /\ identStore = "idle"
    /\ parts = <<>>
    /\ fileName = <<>>
    /\ identStep = "idle"
    /\ identifier = <<>>

InlineIdle ==
    /\ foxmlDoc = <<>>
    /\ inlinePc = "idle"
    /\ reader = 0
    /\ inlinePid = <<>>
    /\ inlineDsid = <<>>
    /\ inlineVersion = <<>>
    /\ inlineResults = {}

ManagedIdle ==
    /\ datastreamStore = {}
    /\ foxmlObjects = {}
    /\ managedPc = "idle"
    /\ managedFiles = {}
    /\ managedDatastreams = {}
    /\ orphaned = {}
    /\ pathMap = {}
    /\ moverCalls = <<>>
    /\ stagedPaths = {}

DirIdle ==
    /\ dirTree = <<>>
    /\ OBJECTS_DIRECTORY = <<>>
    /\ DATASTREAMS_DIRECTORY = <<>>
    /\ dirCalls = 0
    /\ dirLast = <<>>

WalkIdle ==
    /\ walkEntries = <<>>
    /\ walkSeen = <<>>
    /\ walkPc = "idle"
    /\ walkFiles = {}

LockIdle ==
    /\ sharedObjects = {}
    /\ rwLock = <<>>
    /\ scriptTask = <<>>
    /\ hostCalls = <<>>
    /\ hostResult = <<>>
    /\ lockPc = "idle"

StoreIdle ==
    /\ storeFiles = {}
    /\ taskDone = <<>>
    /\ pathMaps = <<>>
    /\ failedPaths = <<>>
    /\ returned = <<>>

PoolIdle ==
    /\ poolPc = ""
    /\ taskPc = <<>>
    /\ csvRows = <<>>
    /\ csvFiles = <<>>
    /\ bars = <<>>

GraphRestIdle == RelsIdle /\ MigrateIdle /\ ScriptIdle /\ IdentIdle /\ InlineIdle /\ ManagedIdle
    /\ DirIdle
    /\ WalkIdle
    /\ LockIdle
    /\ StoreIdle
    /\ PoolIdle
RelsRestIdle == GraphIdle /\ MigrateIdle /\ ScriptIdle /\ IdentIdle /\ InlineIdle /\ ManagedIdle
    /\ DirIdle
    /\ WalkIdle
    /\ LockIdle
    /\ StoreIdle
    /\ PoolIdle
MigrateRestIdle == GraphIdle /\ RelsIdle /\ ScriptIdle /\ IdentIdle /\ InlineIdle /\ ManagedIdle
    /\ DirIdle
    /\ WalkIdle
    /\ LockIdle
    /\ StoreIdle
    /\ PoolIdle
ScriptRestIdle == GraphIdle /\ RelsIdle /\ MigrateIdle /\ IdentIdle /\ InlineIdle /\ ManagedIdle
    /\ DirIdle
    /\ WalkIdle
    /\ LockIdle
    /\ StoreIdle
    /\ PoolIdle
IdentRestIdle == GraphIdle /\ RelsIdle /\ MigrateIdle /\ ScriptIdle /\ InlineIdle /\ ManagedIdle
    /\ DirIdle
    /\ WalkIdle
    /\ LockIdle
    /\ StoreIdle
    /\ PoolIdle
InlineRestIdle == GraphIdle /\ RelsIdle /\ MigrateIdle /\ ScriptIdle /\ IdentIdle /\ ManagedIdle
    /\ DirIdle
    /\ WalkIdle
    /\ LockIdle
    /\ StoreIdle
    /\ PoolIdle
ManagedRestIdle ==
    GraphIdle /\ RelsIdle /\ MigrateIdle /\ ScriptIdle /\ IdentIdle /\ InlineIdle
    /\ DirIdle
    /\ WalkIdle
    /\ LockIdle
    /\ StoreIdle
    /\ PoolIdle
DirRestIdle ==
    GraphIdle /\ RelsIdle /\ MigrateIdle /\ ScriptIdle /\ IdentIdle /\ InlineIdle /\ ManagedIdle
    /\ WalkIdle
    /\ LockIdle
    /\ StoreIdle
    /\ PoolIdle
WalkRestIdle ==
    GraphIdle /\ RelsIdle /\ MigrateIdle /\ ScriptIdle /\ IdentIdle /\ InlineIdle /\ ManagedIdle /\ DirIdle
    /\ LockIdle
    /\ StoreIdle
    /\ PoolIdle
LockRestIdle ==
    GraphIdle /\ RelsIdle /\ MigrateIdle /\ ScriptIdle /\ IdentIdle /\ InlineIdle /\ ManagedIdle /\ DirIdle /\ WalkIdle
    /\ StoreIdle
    /\ PoolIdle
StoreRestIdle ==
    GraphIdle /\ RelsIdle /\ MigrateIdle /\ ScriptIdle /\ IdentIdle /\ InlineIdle /\ ManagedIdle /\ DirIdle /\ WalkIdle /\ LockIdle
    /\ PoolIdle
PoolRestIdle ==
    GraphIdle /\ RelsIdle /\ MigrateIdle /\ ScriptIdle /\ IdentIdle /\ InlineIdle /\ ManagedIdle /\ DirIdle /\ WalkIdle /\ LockIdle /\ StoreIdle

-----------------------------------------------------------------------------
(* RelsSpec: the RELS-EXT of one object is read element by element, the     *)
(* Object is built at Eof and its NodeRow is projected.                     *)

MaxElements == 3

PidA1 == <<"a", ":", "1">>
PidA2 == <<"a", ":", "2">>
PidA10 == <<"a", ":", "1", "0">>
PidA01 == <<"a", ":", "0", "1">>

\* An element whose rdf:resource (after the info:fedora/ prefix) is value.
Resource(name, value) ==
    [name |-> name, local |-> <<>>, resource |-> Some(value), text |-> <<>>]

\* An element with a text node.
Text(name, local, text) ==
    [name |-> name, local |-> local, resource |-> None, text |-> text]

ParentPredicates ==
    {"fedora:isPartOf", "fedora:isConstituentOf", "fedora:isMemberOf",
     "fedora:isSubsetOf", "fedora:isMemberOfCollection", "fedora:isDerivationOf",
     "fedora:isDependentOf", "fedora:isDescriptionOf", "fedora:isMetadataFor",
     "fedora:isAnnotationOf"}

\* The elements a RELS-EXT document is drawn from.  Text-bearing elements
\* carry a non-blank text node, as get_text requires.
ElementChoices ==
    {Resource(p, PidA2) : p \in ParentPredicates}
    \cup {Resource("fedora:isMemberOfCollection", PidA10),
          Resource("rdf:Description", PidA1),
          Resource("fedora-model:hasModel", "islandora:pageCModel"),
          Resource("fedora-model:hasModel", "islandora:unknownCModel"),
          Resource("fedora:hasMember", PidA1),
          Resource("islandora:isPageOf", PidA1),
          Text("islandora:isPageNumber", <<>>, <<"3">>),
          Text("islandora:isPageNumber", <<>>, <<"x">>),
          Text("islandora:isSequenceNumber", <<>>, <<"1", "2">>),
          Text("islandora:isSequenceNumberOfa_2",
               IsSequenceNumberOfPrefix \o <<"a", "_", "2">>, <<"7">>),
          Text("islandora:isSequenceNumberOfa_10",
               IsSequenceNumberOfPrefix \o <<"a", "_", "1", "0">>, <<"+", "5">>),
          Text("islandora:isPageNumber", <<>>, <<"0", "1", "a">>),
          Text("islandora:isSection", <<>>, <<"0", "2">>),
          Text("islandora:isSequenceNumberOfa_1_2",
               IsSequenceNumberOfPrefix \o <<"a", "_", "1", "_", "2">>, <<"x">>),
          Text("islandora:hasLanguage", <<"h", "a", "s", "L", "a", "n", "g", "u", "a", "g", "e">>,
               <<"x">>)}

RelsInit ==
    /\ relsPhase = "reading"
    /\ elements = <<>>
    /\ rels_ext = DefaultRelsExt
    /\ object = NoObject
    /\ nodeRow = NoRow
    /\ RelsRestIdle

\* One Start/Empty event of from_reader's loop.
ReadElement ==
    /\ relsPhase = "reading"
    /\ Len(elements) < MaxElements
    /\ \E e \in ElementChoices :
         LET next == process_element(rels_ext, e)
         IN  /\ elements' = Append(elements, e)
             /\ rels_ext' = next.rels
             /\ relsPhase' = IF next.panic THEN "panic" ELSE "reading"
    /\ UNCHANGED <<object, nodeRow, relsRest>>

\* Event::Eof: from_reader returns and Object::new builds the object.
ObjectNew ==
    /\ relsPhase = "reading"
    /\ IF ModelOfRelsExt(rels_ext) = None
       THEN relsPhase' = "panic" /\ object' = object
       ELSE relsPhase' = "object" /\ object' = ObjectOfRelsExt(PidA1, rels_ext)
    /\ UNCHANGED <<elements, rels_ext, nodeRow, relsRest>>

\* NodeRow::new on the object.
BuildNodeRow ==
    /\ relsPhase = "object"
    /\ IF NodeRowNew(object) = None
       THEN relsPhase' = "panic" /\ nodeRow' = nodeRow
       ELSE relsPhase' = "row" /\ nodeRow' = NodeRowNew(object)[1]
    /\ UNCHANGED <<elements, rels_ext, object, relsRest>>

RelsNext == ReadElement \/ ObjectNew \/ BuildNodeRow

RelsSpec == RelsInit /\ [][RelsNext]_vars

-----------------------------------------------------------------------------
(* Properties of the RELS-EXT derived fields (checked under RelsSpec).      *)

ObjectBuilt == relsPhase \in {"object", "row"}

\* The cells of a column, split on a separator character.
RECURSIVE SplitOn(_, _, _)
SplitOn(cell, s, separator) ==
    IF s = <<>> THEN <<cell>>
    ELSE IF Head(s) = separator THEN <<cell>> \o SplitOn(<<>>, Tail(s), separator)
    ELSE SplitOn(Append(cell, Head(s)), Tail(s), separator)

\* How often the document lists v under one predicate.
Listed(name, v) ==
    Cardinality({k \in 1..Len(elements) :
                    elements[k].name = name /\ elements[k].resource = Some(v)})

\* How often the document lists v under the ten parent predicates.
RECURSIVE SumListed(_, _)
SumListed(names, v) ==
    IF names = {} THEN 0
    ELSE LET n == CHOOSE x \in names : TRUE
         IN  Listed(n, v) + SumListed(names \ {n}, v)

ParentValues == {PidA1, PidA2, PidA10}

\* C6: the parents of an object are the entries of exactly the ten parent
\* predicate lists of its RELS-EXT (each as often as it is listed there, and
\* nothing from hasModel, isPageOf, the has* inverses or isSequenceNumberOf),
\* in alphanumeric order, and the parents column of its nodes.csv row is
\* those entries joined by '|'.
ParentOrdering ==
    ObjectBuilt =>
        /\ \A i, j \in 1..Len(object.parents) :
             i < j => compare_str(object.parents[i], object.parents[j]) # "Greater"
        /\ Range(object.parents) \subseteq ParentValues
        /\ \A v \in ParentValues :
             Count(object.parents, v) = SumListed(ParentPredicates, v)
        /\ relsPhase = "row" =>
             IF object.parents = <<>> THEN nodeRow.parents = <<>>
             ELSE SplitOn(<<>>, nodeRow.parents, "|") = object.parents

\* C6 witness: a row whose document lists a:10 before a:2 under parent
\* predicates and whose parents column reads a:2|a:10.
ParentOrderingWitness ==
    /\ relsPhase = "row"
    /\ \E i, j \in 1..Len(elements) :
         /\ i < j
         /\ elements[i] = Resource("fedora:isMemberOfCollection", PidA10)
         /\ elements[j] = Resource("fedora:isPartOf", PidA2)
    /\ nodeRow.parents = PidA2 \o <<"|">> \o PidA10

\* C7: a parent appears in parents at most once for each distinct predicate
\* under which the RELS-EXT lists it; listed twice under one predicate it
\* appears once.
ParentsNoDuplicateWithinPredicate ==
    ObjectBuilt =>
        \A v \in ParentValues :
            Count(object.parents, v)
                <= Cardinality({n \in ParentPredicates : Listed(n, v) > 0})

\* C8: the weight of an object is its isPageNumber when the RELS-EXT has
\* one, otherwise its isSequenceNumber, otherwise the number of the first
\* isSequenceNumberOf element, otherwise absent; the weight column of its
\* nodes.csv row is that number in decimal, and empty when absent.
WeightPrecedence ==
    LET at(name) == {k \in 1..Len(elements) : elements[k].name = name}
        compound == {k \in 1..Len(elements) :
                  IsPrefix(IsSequenceNumberOfPrefix, elements[k].local)}
        max(S) == CHOOSE k \in S : \A m \in S : m <= k
        min(S) == CHOOSE k \in S : \A m \in S : k <= m
        page == at("islandora:isPageNumber")
        sequence == at("islandora:isSequenceNumber")
        expected ==
            IF page # {} THEN ParseUsize(elements[max(page)].text)
            ELSE IF sequence # {} THEN ParseUsize(elements[max(sequence)].text)
            ELSE IF compound # {} THEN ParseUsize(elements[min(compound)].text)
            ELSE None
    IN  ObjectBuilt =>
            /\ object.weight = expected
            /\ relsPhase = "row" =>
                 IF expected = None THEN nodeRow.weight = <<>>
                 ELSE /\ nodeRow.weight # <<>>
                      /\ Head(nodeRow.weight) # "+"
                      /\ ParseUsize(nodeRow.weight) = expected

\* C8 witness: a row of an object with both isPageNumber 3 and
\* isSequenceNumber 12, whose weight column reads 3.
WeightPrecedenceWitness ==
    /\ relsPhase = "row"
    /\ \E i, j \in 1..Len(elements) :
         /\ elements[i].name = "islandora:isSequenceNumber"
         /\ elements[j].name = "islandora:isPageNumber"
    /\ nodeRow.weight = <<"3">>

-----------------------------------------------------------------------------
(* Spec: graph assembly (ObjectMap::from_path) over a batch of object files *)
(* and the four CSV projectors of generate_csvs.                            *)

MaxFiles == 2

PidSystem == SystemPrefix \o <<"a">>

\* A datastream version id: <dsid>.<n>
VersionId(dsid, n) == dsid \o <<".">> \o to_string(n)

\* A staged version of a datastream other than RELS-EXT.
Staged(dsid, n) == [id |-> VersionId(dsid, n), staged |-> TRUE, elements |-> <<>>]

\* A staged RELS-EXT version with the given elements.
RelsVersion(n, es) == [id |-> VersionId(RelsExtId, n), staged |-> TRUE, elements |-> es]

RelsDatastream(versions) == [id |-> RelsExtId, control_group |-> "X", versions |-> versions]

ObjDatastream(group, versions) == [id |-> ObjId, control_group |-> group, versions |-> versions]

HasModel(model) == Resource("fedora-model:hasModel", model)

MemberOf(pid) == Resource("fedora:isMemberOfCollection", pid)

ReadableFile(foxml) == [readable |-> TRUE, valid |-> TRUE, foxml |-> foxml]

\* RELS-EXT listed before OBJ, and OBJ.1 before OBJ.0, as a FOXML may.
PlainFoxml(pid, model) ==
    [pid |-> pid,
     datastreams |->
        <<RelsDatastream(<<RelsVersion(0, <<HasModel(model), MemberOf(PidA2)>>)>>),
          ObjDatastream("M", <<Staged(ObjId, 1), Staged(ObjId, 0)>>)>>]

\* The object files a batch is drawn from.
FileChoices ==
    {ReadableFile(PlainFoxml(PidA1, "islandora:pageCModel")),
     ReadableFile(PlainFoxml(PidA01, "islandora:sp_pdf")),
     ReadableFile(PlainFoxml(PidA10, "islandora:bookCModel")),
     ReadableFile(PlainFoxml(PidSystem, "islandora:collectionCModel")),
     ReadableFile(PlainFoxml(PidA2, ContentModel)),
     ReadableFile(PlainFoxml(PidA10, "islandora:unknownCModel")),
     \* three versions of OBJ, listed newest first
     ReadableFile([pid |-> PidA2,
                   datastreams |->
                      <<ObjDatastream("M", <<Staged(ObjId, 10), Staged(ObjId, 2), Staged(ObjId, 1)>>),
                        RelsDatastream(<<RelsVersion(0, <<HasModel("islandora:bookCModel")>>)>>)>>]),
     \* a second file with the PID a:1, and two RELS-EXT versions listed newest first
     ReadableFile([pid |-> PidA1,
                   datastreams |->
                      <<RelsDatastream(<<RelsVersion(1, <<HasModel("islandora:sp_pdf")>>),
                                         RelsVersion(0, <<HasModel("islandora:bookCModel"),
                                                          MemberOf(PidA10)>>)>>)>>]),
     \* unreadable, and not deserializable
     [readable |-> FALSE, valid |-> TRUE, foxml |-> PlainFoxml(PidA2, "islandora:pageCModel")],
     [readable |-> TRUE, valid |-> FALSE, foxml |-> PlainFoxml(PidA10, "islandora:pageCModel")],
     \* no RELS-EXT datastream
     ReadableFile([pid |-> PidA1,
                   datastreams |-> <<ObjDatastream("M", <<Staged(ObjId, 0)>>)>>]),
     \* a RELS-EXT without hasModel
     ReadableFile([pid |-> PidA2,
                   datastreams |-> <<RelsDatastream(<<RelsVersion(0, <<MemberOf(PidA1)>>)>>)>>]),
     \* an externally referenced datastream
     ReadableFile([pid |-> PidA10,
                   datastreams |->
                      <<RelsDatastream(<<RelsVersion(0, <<HasModel("islandora:pageCModel")>>)>>),
                        ObjDatastream("E", <<Staged(ObjId, 0)>>)>>]),
     \* a redirected RELS-EXT
     ReadableFile([pid |-> PidA1,
                   datastreams |->
                      <<[id |-> RelsExtId, control_group |-> "R",
                         versions |-> <<RelsVersion(0, <<HasModel("islandora:pageCModel")>>)>>],
                        ObjDatastream("M", <<Staged(ObjId, 0)>>)>>]),
     \* a version whose file was not staged
     ReadableFile([pid |-> PidA2,
                   datastreams |->
                      <<RelsDatastream(<<RelsVersion(0, <<HasModel("islandora:pageCModel")>>)>>),
                        ObjDatastream("M", <<[id |-> VersionId(ObjId, 0), staged |-> FALSE,
                                              elements |-> <<>>]>>)>>])}

Pending == [outcome |-> "pending", cause |-> "", value |-> <<>>]

Init ==
    /\ objectFiles \in UNION {[1..n -> FileChoices] : n \in 0..MaxFiles}
    /\ results = [i \in 1..Len(objectFiles) |-> Pending]
    /\ phase = "parsing"
    /\ abortCause = ""
    /\ objectMap = <<>>
    /\ nodesCsv = NoCsv
    /\ mediaCsv = NoCsv
    /\ revisionsCsv = NoCsv
    /\ filesCsv = NoCsv
    /\ GraphRestIdle

\* One task of the par_iter of ObjectMap::from_path: the map closure, then
\* the filter closure; a panic exits the process.
ParseObject(i) ==
    /\ phase = "parsing"
    /\ results[i] = Pending
    /\ \E mapped \in {ObjectFromPath(objectFiles[i])} :
         \E result \in {FilterResult(mapped)} :
            /\ results' = [results EXCEPT ![i] = result]
            /\ phase' = IF result.outcome = "panic" THEN "aborted" ELSE phase
            /\ abortCause' = IF result.outcome = "panic" THEN result.cause ELSE abortCause
    /\ UNCHANGED <<objectFiles, objectMap, nodesCsv, mediaCsv, revisionsCsv, filesCsv,
                   graphRest>>

\* The collect of ObjectMap::from_path, once every task has returned; then
\* generate_csvs spawns the projectors.
Collect ==
    /\ phase = "parsing"
    /\ \A i \in 1..Len(results) : results[i] # Pending
    /\ objectMap' = CollectFrom(<<>>, results)
    /\ phase' = "projecting"
    /\ UNCHANGED <<objectFiles, results, abortCause, nodesCsv, mediaCsv, revisionsCsv,
                   filesCsv, graphRest>>

\* FileRow::csv
FilesCsv ==
    /\ phase = "projecting"
    /\ filesCsv = NoCsv
    /\ filesCsv' = Written(Versions(objectMap))
    /\ UNCHANGED <<objectFiles, results, phase, abortCause, objectMap, nodesCsv, mediaCsv,
                   revisionsCsv, graphRest>>

\* MediaRow::csv
MediaCsv ==
    /\ phase = "projecting"
    /\ mediaCsv = NoCsv
    /\ mediaCsv' = Written(LatestVersions(objectMap))
    /\ UNCHANGED <<objectFiles, results, phase, abortCause, objectMap, nodesCsv, filesCsv,
                   revisionsCsv, graphRest>>

\* MediaRow::revisions_csv
RevisionsCsv ==
    /\ phase = "projecting"
    /\ revisionsCsv = NoCsv
    /\ revisionsCsv' = Written(PreviousVersions(objectMap))
    /\ UNCHANGED <<objectFiles, results, phase, abortCause, objectMap, nodesCsv, filesCsv,
                   mediaCsv, graphRest>>

\* NodeRow::csv: the rows are built first, and an unknown content model panics.
NodesCsv ==
    /\ phase = "projecting"
    /\ nodesCsv = NoCsv
    /\ LET rows == [i \in 1..Len(objectMap) |-> NodeRowNew(objectMap[i].value)]
       IN  IF \E i \in 1..Len(rows) : rows[i] = None
           THEN phase' = "aborted" /\ abortCause' = "unknown model" /\ nodesCsv' = nodesCsv
           ELSE /\ nodesCsv' = Written([i \in 1..Len(rows) |-> rows[i][1]])
                /\ UNCHANGED <<phase, abortCause>>
    /\ UNCHANGED <<objectFiles, results, objectMap, filesCsv, mediaCsv, revisionsCsv,
                   graphRest>>

\* multi.join_and_clear() returns once every projector has finished.
Finish ==
    /\ phase = "projecting"
    /\ nodesCsv.written /\ filesCsv.written /\ mediaCsv.written /\ revisionsCsv.written
    /\ phase' = "finished"
    /\ UNCHANGED <<objectFiles, results, abortCause, objectMap, nodesCsv, mediaCsv,
                   revisionsCsv, filesCsv, graphRest>>

Next ==
    \/ \E i \in 1..Len(objectFiles) : ParseObject(i)
    \/ Collect
    \/ FilesCsv
    \/ MediaCsv
    \/ RevisionsCsv
    \/ NodesCsv
    \/ Finish

Spec == Init /\ [][Next]_vars

-----------------------------------------------------------------------------
(* Properties of graph assembly and of the projections (checked under Spec) *)

\* The map has been collected.
Assembled ==
    \/ phase \in {"projecting", "finished"}
    \/ phase = "aborted" /\ abortCause = "unknown model"

\* The files whose object the filter kept.
Kept == {i \in 1..Len(results) : results[i].outcome = "ok"}

KeptPids == {results[i].value.pid : i \in Kept}

\* The last kept file with the given PID.
LastKept(pid) ==
    CHOOSE i \in Kept :
        /\ results[i].value.pid = pid
        /\ \A j \in Kept : results[j].value.pid = pid => j <= i

\* The number after "a:" of a PID of that form.
PidNumber(pid) == DigitsValue(0, SubSeq(pid, 3, Len(pid)))

IsNumbered(pid) ==
    /\ Len(pid) > 2
    /\ SubSeq(pid, 1, 2) = <<"a", ":">>
    /\ \A i \in 3..Len(pid) : pid[i] \in Digits

\* C3: the rows of nodes.csv are one per object of the map and strictly
\* increasing in pid under the alphanumeric comparator, so that PIDs a:<n>
\* are in the order of their numbers (a:2 before a:10).
PidSortProperty ==
    nodesCsv.written =>
        /\ Len(nodesCsv.rows) = Len(objectMap)
        /\ {nodesCsv.rows[i].pid : i \in 1..Len(nodesCsv.rows)} = KeptPids
        /\ \A i \in 1..Len(objectMap) : nodesCsv.rows[i].pid = objectMap[i].value.pid
        /\ \A i, j \in 1..Len(nodesCsv.rows) :
             i < j =>
                /\ compare_str(nodesCsv.rows[i].pid, nodesCsv.rows[j].pid) = "Less"
                /\ IsNumbered(nodesCsv.rows[i].pid) /\ IsNumbered(nodesCsv.rows[j].pid)
                     => PidNumber(nodesCsv.rows[i].pid) <= PidNumber(nodesCsv.rows[j].pid)

\* C3 witness: the batch lists a:10 before a:2 and nodes.csv has a:2 before
\* a:10.
PidSortWitness ==
    /\ nodesCsv.written
    /\ Len(objectFiles) = 2
    /\ objectFiles[1].foxml.pid = PidA10
    /\ objectFiles[2].foxml.pid = PidA2
    /\ Len(nodesCsv.rows) = 2
    /\ nodesCsv.rows[1].pid = PidA2
    /\ nodesCsv.rows[2].pid = PidA10

RowsOf(rows, pid, dsid) ==
    LET mine(r) == r.pid = pid /\ r.dsid = dsid
    IN  SelectSeq(rows, mine)

\* C5: for every datastream of every object of the map, with the version
\* ids of its FOXML in alphanumeric order v1..vk, media.csv has exactly vk,
\* media_revisions.csv exactly v1..v(k-1) in that order, and files.csv
\* exactly the revisions followed by the latest.
LatestVersionSelection ==
    \A m \in 1..Len(objectMap) :
        LET pid == objectMap[m].id
            foxml == objectFiles[LastKept(pid)].foxml
        IN  \A n \in 1..Len(foxml.datastreams) :
                LET d == foxml.datastreams[n]
                    vs == sort_strings([i \in 1..Len(d.versions) |-> d.versions[i].id])
                    row(v) == [pid |-> pid, dsid |-> d.id, version |-> v]
                    latest == <<row(vs[Len(vs)])>>
                    previous == [i \in 1..(Len(vs) - 1) |-> row(vs[i])]
                IN  /\ \A i, j \in 1..Len(vs) :
                         i < j => compare_str(vs[i], vs[j]) = "Less"
                    /\ mediaCsv.written => RowsOf(mediaCsv.rows, pid, d.id) = latest
                    /\ revisionsCsv.written =>
                         RowsOf(revisionsCsv.rows, pid, d.id) = previous
                    /\ filesCsv.written =>
                         RowsOf(filesCsv.rows, pid, d.id) = previous \o latest

\* C5 witness: the object a:2, whose FOXML lists OBJ.10, OBJ.2, OBJ.1, has
\* OBJ.10 in media.csv and OBJ.1, OBJ.2 in media_revisions.csv.
LatestVersionSelectionWitness ==
    /\ mediaCsv.written /\ revisionsCsv.written /\ filesCsv.written
    /\ RowsOf(mediaCsv.rows, PidA2, ObjId)
         = <<[pid |-> PidA2, dsid |-> ObjId, version |-> VersionId(ObjId, 10)]>>
    /\ RowsOf(revisionsCsv.rows, PidA2, ObjId)
         = <<[pid |-> PidA2, dsid |-> ObjId, version |-> VersionId(ObjId, 1)],
             [pid |-> PidA2, dsid |-> ObjId, version |-> VersionId(ObjId, 2)]>>

\* C9: an object file that cannot be read or deserialized is skipped: graph
\* assembly does not abort because of it.
BadFoxmlIsSkipped ==
    ~(phase = "aborted" /\ abortCause \in {"read", "deserialize"})

\* C10: an object without a RELS-EXT datastream, or whose RELS-EXT has no
\* hasModel, is left out of the map and graph assembly does not abort
\* because of it.
MissingModelIsDropped ==
    ~(phase = "aborted" /\ abortCause \in {"no RELS-EXT", "no hasModel"})

\* The object file has a datastream of control group E or R.
HasExternal(file) ==
    \E n \in 1..Len(file.foxml.datastreams) :
        file.foxml.datastreams[n].control_group \in {"E", "R"}

\* The task of the file has deserialized its FOXML.
Deserialized(i) ==
    results[i] # Pending /\ objectFiles[i].readable /\ objectFiles[i].valid

\* C11: once a task has parsed a FOXML with a datastream (RELS-EXT or other)
\* of control group E or R, the task has panicked, processing is aborted and
\* neither an object map nor a CSV is produced; no Object is built from
\* such a FOXML, and an assembled map comes from files without one.
ExternalDatastreamAborts ==
    /\ \A i \in 1..Len(objectFiles) :
          Deserialized(i) /\ HasExternal(objectFiles[i]) =>
             /\ results[i].outcome = "panic"
             /\ phase = "aborted"
             /\ objectMap = <<>>
             /\ ~nodesCsv.written /\ ~mediaCsv.written
             /\ ~revisionsCsv.written /\ ~filesCsv.written
    /\ \A i \in 1..Len(objectFiles) :
          results[i].outcome \in {"ok", "filtered"} => ~HasExternal(objectFiles[i])
    /\ Assembled => \A i \in 1..Len(objectFiles) : ~HasExternal(objectFiles[i])

\* C11 witness: a batch of a well-formed object, already parsed and kept,
\* and an object with a datastream E or R whose task has aborted the run.
ExternalDatastreamAbortsWitness ==
    /\ phase = "aborted"
    /\ abortCause = "unimplemented"
    /\ \E i, j \in 1..Len(objectFiles) :
          /\ results[i].outcome = "ok"
          /\ HasExternal(objectFiles[j])
          /\ results[j].outcome = "panic"
          /\ \E n \in 1..Len(objectFiles[j].foxml.datastreams) :
                /\ objectFiles[j].foxml.datastreams[n].id # RelsExtId
                /\ objectFiles[j].foxml.datastreams[n].control_group = "E"

\* The keys of MODEL_MAP.
ModelTable ==
    {"islandora:collectionCModel", "islandora:sp_basic_image",
     "islandora:sp_large_image_cmodel", "islandora:sp-audioCModel",
     "islandora:sp_videoCModel", "islandora:sp_pdf", "islandora:bookCModel",
     "islandora:pageCModel", "islandora:newspaperCModel",
     "islandora:newspaperIssueCModel", "islandora:newspaperPageCModel",
     "islandora:compoundCModel", "islandora:binaryCModel",
     "islandora:binaryObjectCModel"}

\* Some object of the map has a content model outside the model table.
UnknownModelInMap ==
    \E i \in 1..Len(objectMap) : objectMap[i].value.model \notin ModelTable

\* C12: with an object of unknown content model in the map, nodes.csv is
\* never created and the nodes projector is what aborts; media.csv,
\* media_revisions.csv and files.csv, once written, hold the projection of
\* the whole map whatever the models are, and after assembly nothing but
\* the unknown model aborts.
UnknownModelFatalForNodesOnly ==
    /\ UnknownModelInMap => ~nodesCsv.written
    /\ (phase = "aborted" /\ abortCause = "unknown model") =>
          UnknownModelInMap /\ nodesCsv = NoCsv
    /\ nodesCsv.written => Len(nodesCsv.rows) = Len(objectMap)
    /\ mediaCsv.written => mediaCsv.rows = LatestVersions(objectMap)
    /\ revisionsCsv.written => revisionsCsv.rows = PreviousVersions(objectMap)
    /\ filesCsv.written => filesCsv.rows = Versions(objectMap)
    /\ (phase = "aborted" /\ objectMap # <<>>) => abortCause = "unknown model"

\* C12 witness: the map holds an object of unknown model, the three other
\* files are written with its rows, and the nodes projector has aborted
\* without nodes.csv.
UnknownModelFatalForNodesOnlyWitness ==
    /\ phase = "aborted"
    /\ abortCause = "unknown model"
    /\ ~nodesCsv.written
    /\ mediaCsv.written /\ revisionsCsv.written /\ filesCsv.written
    /\ \E i \in 1..Len(objectMap) :
          /\ objectMap[i].value.model \notin ModelTable
          /\ RowsOf(mediaCsv.rows, objectMap[i].id, ObjId) # <<>>
          /\ RowsOf(revisionsCsv.rows, objectMap[i].id, ObjId) # <<>>
          /\ RowsOf(filesCsv.rows, objectMap[i].id, ObjId) # <<>>

\* The version of the RELS-EXT datastream of a FOXML whose id is greatest
\* under the alphanumeric order.
GreatestRelsExtVersion(foxml) ==
    LET d == foxml.datastreams[First({n \in 1..Len(foxml.datastreams) :
                                         foxml.datastreams[n].id = RelsExtId})]
    IN  d.versions[CHOOSE k \in 1..Len(d.versions) :
                       \A j \in 1..Len(d.versions) :
                           j # k => compare_str(d.versions[j].id, d.versions[k].id) = "Less"]

\* C18: the model and the parents of every object built come from the
\* RELS-EXT version whose id is greatest under the alphanumeric order,
\* whatever the order of the versions in the FOXML.
RelsExtLatestIsRead ==
    \A i \in Kept :
        LET read == from_reader(GreatestRelsExtVersion(objectFiles[i].foxml).elements).rels
        IN  /\ Some(results[i].value.model) = ModelOfRelsExt(read)
            /\ results[i].value.parents = ParentsOfRelsExt(read)

-----------------------------------------------------------------------------
(* The stage-1 file mover (src/src/migrate/migrate.rs).  A file is          *)
(* [content, mtime]; NoFile is a path that does not exist.  The Fedora      *)
(* stores hold one object file and the one managed datastream it            *)
(* references; the object file has one inline datastream.  Every content    *)
(* is a FOXML with those two references.                                    *)

\* len() of a content.
Size(content) ==
    CASE content \in {"A", "B", "D"} -> 10
      [] content \in {"C", "E"} -> 20
      [] content \in {"iA", "iB", "iD"} -> 5
      [] content \in {"iC", "iE"} -> 7

\* crc32fast::Hasher over a content: B and C collide with A, iB and iC with iA.
Crc32(content) ==
    CASE content \in {"A", "B", "C"} -> 1111
      [] content = "D" -> 2222
      [] content = "E" -> 3333
      [] content \in {"iA", "iB", "iC"} -> 4444
      [] content = "iD" -> 5555
      [] content = "iE" -> 6666

\* extract_inline_datastreams: the inline XML inside an object file.
ExtractInline(content) ==
    CASE content = "A" -> "iA" [] content = "B" -> "iB" [] content = "C" -> "iC"
      [] content = "D" -> "iD" [] content = "E" -> "iE"

\* should_migrate_file with the checksum comparison inverted.
ShouldMigrateFileInverted(src, dest, checksum) ==
    \/ dest = NoFile
    \/ IF checksum
       THEN Crc32(src.content) = Crc32(dest.content)
       ELSE Size(src.content) # Size(dest.content) \/ src.mtime # dest.mtime

should_migrate_file(src, dest, checksum) ==
    \/ dest = NoFile
    \/ IF checksum
       THEN Crc32(src.content) # Crc32(dest.content)
       ELSE Size(src.content) # Size(dest.content) \/ src.mtime # dest.mtime

should_migrate_content(content, dest, checksum) ==
    \/ dest = NoFile
    \/ IF checksum
       THEN Crc32(content) # Crc32(dest.content)
       ELSE Size(content) # Size(dest.content)

\* What a file action leaves: its MigrationResult, the source and the
\* destination.
Outcome(result, src, dest) == [result |-> result, src |-> src, dest |-> dest]

\* The result of a write reported as Migrated whether or not the
\* destination existed.
AlwaysMigrated(dest) == "Migrated"

\* if existed { Updated } else { Migrated }
UpdatedOrMigrated(dest) == IF dest # NoFile THEN "Updated" ELSE "Migrated"

\* migrate_by_copy: fs::copy, then the source's mtime is set on the copy.
migrate_by_copy(src, dest, checksum) ==
    IF should_migrate_file(src, dest, checksum)
    THEN Outcome(UpdatedOrMigrated(dest), src, [content |-> src.content, mtime |-> src.mtime])
    ELSE Outcome("Skipped", src, dest)

\* migrate_by_move: fs::rename, and across filesystems fs::copy, which writes
\* the destination at the current time and leaves the source.
migrate_by_move(src, dest, checksum, cross, now) ==
    IF should_migrate_file(src, dest, checksum)
    THEN IF cross
         THEN Outcome(UpdatedOrMigrated(dest), src, [content |-> src.content, mtime |-> now])
         ELSE Outcome(UpdatedOrMigrated(dest), NoFile, src)
    ELSE Outcome("Skipped", src, dest)

\* migrate_content: File::create and write_all, at the current time.
migrate_content(content, dest, checksum, now) ==
    IF should_migrate_content(content, dest, checksum)
    THEN Outcome(UpdatedOrMigrated(dest), NoFile, [content |-> content, mtime |-> now])
    ELSE Outcome("Skipped", NoFile, dest)

\* migrate_files on one listed file: the action chosen by the copy flag.
migrate_file(src, dest, byCopy, checksum, cross, now) ==
    IF byCopy THEN migrate_by_copy(src, dest, checksum)
    ELSE migrate_by_move(src, dest, checksum, cross, now)

NotListed(dest) == Outcome("none", NoFile, dest)

\* migrate_object_files on a tree fs = [src, dst].
ObjectStage(fs, byCopy, checksum, cross, now) ==
    IF fs.src.object = NoFile THEN Outcome("none", NoFile, fs.dst.object)
    ELSE migrate_file(fs.src.object, fs.dst.object, byCopy, checksum, cross, now)

\* migrate_managed_datastreams: the files of the datastream store that a
\* migrated object file references.
ManagedStage(fs, byCopy, checksum, cross, now) ==
    IF fs.src.managed = NoFile \/ fs.dst.object = NoFile
    THEN Outcome("none", fs.src.managed, fs.dst.managed)
    ELSE migrate_file(fs.src.managed, fs.dst.managed, byCopy, checksum, cross, now)

\* migrate_inline_datastreams: the inline datastreams of the migrated object
\* files.
InlineStage(fs, checksum, now) ==
    IF fs.dst.object = NoFile THEN NotListed(fs.dst.inline)
    ELSE migrate_content(ExtractInline(fs.dst.object.content), fs.dst.inline, checksum, now)

\* The tree after a stage that left outcome o for the given file.
AfterStage(fs, file, o) ==
    [src |-> IF file \in DOMAIN fs.src THEN [fs.src EXCEPT ![file] = o.src] ELSE fs.src,
     dst |-> [fs.dst EXCEPT ![file] = o.dest]]

\* migrate_data_from_fedora: object files, then managed datastreams, then
\* inline datastreams.
RECURSIVE RunStages(_, _, _, _, _, _)
RunStages(fs, stages, byCopy, checksum, cross, now) ==
    IF stages = <<>> THEN fs
    ELSE LET o == CASE Head(stages) = "object" -> ObjectStage(fs, byCopy, checksum, cross, now)
                    [] Head(stages) = "managed" -> ManagedStage(fs, byCopy, checksum, cross, now)
                    [] Head(stages) = "inline" -> InlineStage(fs, checksum, now)
         IN  RunStages(AfterStage(fs, Head(stages), o), Tail(stages),
                       byCopy, checksum, cross, now)

migrate_data_from_fedora(fs, byCopy, checksum, cross, now) ==
    RunStages(fs, <<"object", "managed", "inline">>, byCopy, checksum, cross, now)

-----------------------------------------------------------------------------
(* MigrateSpec: two runs of stage 1 over the same Fedora stores and output  *)
(* directory, with the flags of each run.                                   *)

MaxMtime == 2

\* The clock of a run: later than every mtime of the initial trees.
Now(r) == MaxMtime + r

SourceFile == [content |-> "A", mtime |-> 1]

FileStates == {NoFile} \cup [content : {"A", "B", "C", "D", "E"}, mtime : 1..MaxMtime]

InlineStates == {NoFile} \cup [content : {"iA", "iB", "iC", "iD", "iE"}, mtime : 1..MaxMtime]

NoTally == [object |-> "pending", managed |-> "pending", inline |-> "pending"]

MigrateInit ==
    /\ copy \in BOOLEAN
    /\ crossFs \in BOOLEAN
    /\ checksums \in {<<FALSE, FALSE>>, <<TRUE, TRUE>>, <<FALSE, TRUE>>}
    /\ srcFs = [object |-> SourceFile, managed |-> SourceFile]
    /\ dstFs \in [object : FileStates, managed : FileStates, inline : InlineStates]
    /\ initialFs = [src |-> srcFs, dst |-> dstFs]
    /\ run = 1
    /\ stage = "objects"
    /\ tally = <<NoTally, NoTally>>
    /\ beforeRun = dstFs
    /\ MigrateRestIdle

\* migrate_object_files
MigrateObjectFiles ==
    /\ stage = "objects"
    /\ \E o \in {ObjectStage([src |-> srcFs, dst |-> dstFs], copy, checksums[run],
                             crossFs, Now(run))} :
         /\ srcFs' = [srcFs EXCEPT !.object = o.src]
         /\ dstFs' = [dstFs EXCEPT !.object = o.dest]
         /\ tally' = [tally EXCEPT ![run].object = o.result]
    /\ stage' = "managed"
    /\ UNCHANGED <<copy, crossFs, checksums, initialFs, run, beforeRun, migrateRest>>

\* migrate_managed_datastreams
MigrateManagedDatastreams ==
    /\ stage = "managed"
    /\ \E o \in {ManagedStage([src |-> srcFs, dst |-> dstFs], copy, checksums[run],
                              crossFs, Now(run))} :
         /\ srcFs' = [srcFs EXCEPT !.managed = o.src]
         /\ dstFs' = [dstFs EXCEPT !.managed = o.dest]
         /\ tally' = [tally EXCEPT ![run].managed = o.result]
    /\ stage' = "inline"
    /\ UNCHANGED <<copy, crossFs, checksums, initialFs, run, beforeRun, migrateRest>>

\* migrate_inline_datastreams, after which the run returns.
MigrateInlineDatastreams ==
    /\ stage = "inline"
    /\ \E o \in {InlineStage([src |-> srcFs, dst |-> dstFs], checksums[run], Now(run))} :
         /\ dstFs' = [dstFs EXCEPT !.inline = o.dest]
         /\ tally' = [tally EXCEPT ![run].inline = o.result]
    /\ stage' = "finished"
    /\ UNCHANGED <<copy, crossFs, checksums, srcFs, initialFs, run, beforeRun,
                   migrateRest>>

\* The tool is run a second time on the same directories.
SecondRun ==
    /\ stage = "finished"
    /\ run = 1
    /\ run' = run + 1
    /\ stage' = "objects"
    /\ beforeRun' = dstFs
    /\ UNCHANGED <<copy, crossFs, checksums, srcFs, dstFs, initialFs, tally,
                   migrateRest>>

MigrateNext ==
    \/ MigrateObjectFiles
    \/ MigrateManagedDatastreams
    \/ MigrateInlineDatastreams
    \/ SecondRun

MigrateSpec == MigrateInit /\ [][MigrateNext]_vars

-----------------------------------------------------------------------------
(* Properties of stage-1 migration (checked under MigrateSpec).             *)

\* C1: in a second run with the same flags every file action returns
\* Skipped and no destination file's content or mtime changes.
IdempotentMigration ==
    (run = 2 /\ checksums[1] = checksums[2]) =>
        /\ dstFs = beforeRun
        /\ \A f \in {"object", "managed", "inline"} :
             tally[2][f] \in {"pending", "none", "Skipped"}

\* The contents of a tree, without the mtimes.
Contents(tree) ==
    [f \in DOMAIN tree |-> IF tree[f] = NoFile THEN "absent" ELSE tree[f].content]

\* The output directory a checksum-mode run alone leaves from the initial
\* trees.
ChecksumAlone == migrate_data_from_fedora(initialFs, copy, TRUE, crossFs, Now(1)).dst

DefaultThenChecksumDone ==
    checksums = <<FALSE, TRUE>> /\ run = 2 /\ stage = "finished"

\* No file of the initial output directory has the CRC32 of its source and
\* another content.
NoCrcCollision ==
    /\ \A f \in {"object", "managed"} :
          initialFs.dst[f] # NoFile /\ Crc32(initialFs.dst[f].content) = Crc32(initialFs.src[f].content)
              => initialFs.dst[f].content = initialFs.src[f].content
    /\ initialFs.dst.inline # NoFile
         /\ Crc32(initialFs.dst.inline.content) = Crc32(ExtractInline(initialFs.src.object.content))
              => initialFs.dst.inline.content = ExtractInline(initialFs.src.object.content)

StageOf(f) == IF f = "object" THEN "objects" ELSE "managed"

\* This step is the file action on the file f, which is in its store.
FileActionStep(f) ==
    /\ stage = StageOf(f)
    /\ stage' # stage
    /\ srcFs[f] # NoFile

-----------------------------------------------------------------------------
(* The Rhai scripts (src/src/csv/scripts.rs).  A Dynamic is [type, value];  *)
(* an Array is a sequence of Dynamics; a Row is a sequence of strings.  A   *)
(* script is [kind, sort_by]: headers() returns the columns "id", "v" and   *)
(* sort_by, and rows(pid) runs the statements of Program(kind, pid) on an   *)
(* empty array and returns it.                                              *)

DynString(value) == [type |-> "string", value |-> value]
DynInt(value) == [type |-> "int", value |-> value]

\* Dynamic::to_string
DynamicToString(d) == IF d.type = "int" THEN to_string(d.value) ELSE d.value

\* char::is_whitespace, for the characters of the cells.
Whitespace == {" ", "\t"}

RECURSIVE trim_start(_)
trim_start(s) ==
    IF s # <<>> /\ Head(s) \in Whitespace THEN trim_start(Tail(s)) ELSE s

RECURSIVE trim_end(_)
trim_end(s) ==
    IF s # <<>> /\ Last(s) \in Whitespace THEN trim_end(SubSeq(s, 1, Len(s) - 1)) ELSE s

\* str::trim
trim(s) == trim_end(trim_start(s))

\* The operator "+=" as the append of the row whatever its cells hold.
PlusAssignUntrimmed(arr, other) == [panic |-> FALSE, array |-> Append(arr, other)]

\* The operator "+=" registered by create_engine: take_string().unwrap()
\* panics on a cell that is not a string.
PlusAssign(arr, other) ==
    IF \E i \in 1..Len(other) : other[i].type # "string"
    THEN [panic |-> TRUE, array |-> arr]
    ELSE LET trimmed == [i \in 1..Len(other) |-> DynString(trim(other[i].value))]
             empty == \A i \in 1..Len(other) : trim(other[i].value) = <<>>
         IN  [panic |-> FALSE, array |-> IF ~empty THEN Append(arr, trimmed) ELSE arr]

\* Array::push of Rhai.
Push(arr, item) == [panic |-> FALSE, array |-> Append(arr, item)]

\* One statement of a rows function on its array.
Execute(statement, arr) ==
    IF statement.op = "+=" THEN PlusAssign(arr, statement.row) ELSE Push(arr, statement.row)

\* The columns every script declares.
Columns == <<"id", "v">>

\* columns.iter().position(|r| r.eq(&sort_by)): 0 is the None that unwrap
\* panics on, otherwise the column counted from 1.
Position(columns, name) ==
    IF \E i \in 1..Len(columns) : columns[i] = name
    THEN First({i \in 1..Len(columns) : columns[i] = name})
    ELSE 0

\* The statements rows(pid) of a script of the given kind executes.
Program(kind, pid) ==
    CASE kind = "perObject" ->
            <<[op |-> "+=", row |-> <<DynString(pid), DynString(<<" ", "a", " ", "b", "\t">>)>>],
              [op |-> "+=", row |-> <<DynString(<<>>), DynString(<<" ", "\t">>)>>]>>
      [] kind = "constant" ->
            <<[op |-> "+=", row |-> <<DynString(<<"x">>), DynString(<<"b">>)>>],
              [op |-> "+=", row |-> <<DynString(<<" ", "x">>), DynString(<<"b", " ">>)>>]>>
      [] kind = "mixed" ->
            <<[op |-> "push", row |-> <<DynInt(1), DynString(<<"b">>)>>],
              [op |-> "+=", row |-> <<DynString(<<"1">>), DynString(<<"b">>)>>],
              [op |-> "+=", row |-> <<DynString(pid), DynString(<<"a">>)>>]>>
      [] kind = "nonString" ->
            <<[op |-> "+=", row |-> <<DynString(pid), DynInt(1)>>]>>
      [] kind = "empty" -> <<>>

\* The conversion at the end of call_rows: every cell to a string.
ConsumeResult(result) ==
    [i \in 1..Len(result) |->
        [j \in 1..Len(result[i]) |-> DynamicToString(result[i][j])]]

\* String::cmp: by code point, a proper prefix first.
RECURSIVE StringCmp(_, _)
StringCmp(a, b) ==
    IF a = <<>> THEN (IF b = <<>> THEN "Equal" ELSE "Less")
    ELSE IF b = <<>> THEN "Greater"
    ELSE IF Head(a) = Head(b) THEN StringCmp(Tail(a), Tail(b))
    ELSE IF CharCode(Head(a)) < CharCode(Head(b)) THEN "Less"
    ELSE "Greater"

\* Vec<String>::cmp: lexicographic in the cells.
RECURSIVE RowCmp(_, _)
RowCmp(a, b) ==
    IF a = <<>> THEN (IF b = <<>> THEN "Equal" ELSE "Less")
    ELSE IF b = <<>> THEN "Greater"
    ELSE IF StringCmp(Head(a), Head(b)) = "Equal" THEN RowCmp(Tail(a), Tail(b))
    ELSE StringCmp(Head(a), Head(b))

\* BTreeSet::insert with every row appended at the end, equal or not.
BTreeSetPush(set, row) == Append(set, row)

\* BTreeSet<Row>::insert on a set kept as a sequence in its order: a row
\* equal to one of the set is not inserted.
RECURSIVE BTreeSetInsert(_, _)
BTreeSetInsert(set, row) ==
    IF set = <<>> THEN <<row>>
    ELSE IF RowCmp(row, Head(set)) = "Less" THEN <<row>> \o set
    ELSE IF RowCmp(row, Head(set)) = "Equal" THEN set
    ELSE <<Head(set)>> \o BTreeSetInsert(Tail(set), row)

\* collect::<BTreeSet<Row>>()
RECURSIVE BTreeSetFrom(_, _)
BTreeSetFrom(set, rows) ==
    IF rows = <<>> THEN set ELSE BTreeSetFrom(BTreeSetInsert(set, Head(rows)), Tail(rows))

\* The second half of aggregate_rows: the rows de-duplicated, then sorted
\* (stably) on the sort_by column.
aggregate_rows(rows, sort_by_column) ==
    LET set == BTreeSetFrom(<<>>, rows)
        sorted == sort_by([i \in 1..Len(set) |-> [id |-> set[i][sort_by_column], row |-> set[i]]])
    IN  [i \in 1..Len(set) |-> sorted[i].row]

\* objects.inner().values() read from the last key to the first.
ObjectAtReversed(map, i) == map[Len(map) + 1 - i]

\* The i-th object of objects.inner().values(): in key order.
ObjectAt(map, i) == map[i]

-----------------------------------------------------------------------------
(* ScriptSpec: run_scripts executes two scripts in parallel over the        *)
(* ObjectMap and then writes their CSV files.                               *)

MaxObjects == 2

ScriptNames == {"s1", "s2"}

ScriptChoices ==
    {[kind |-> "perObject", sort_by |-> "id"],
     [kind |-> "perObject", sort_by |-> "w"],
     [kind |-> "constant", sort_by |-> "v"],
     [kind |-> "mixed", sort_by |-> "id"],
     [kind |-> "mixed", sort_by |-> "v"],
     [kind |-> "nonString", sort_by |-> "id"],
     [kind |-> "empty", sort_by |-> "id"]}

\* The keys an ObjectMap may hold: its BTreeMap keeps them in key order.
MapChoices ==
    {sort_strings(m) : m \in UNION {[1..n -> {PidA1, PidA2, PidA10}] : n \in 0..MaxObjects}}
        \ {m \in UNION {[1..n -> {PidA1, PidA2, PidA10}] : n \in 0..MaxObjects} :
              \E i, j \in 1..Len(m) : i # j /\ m[i] = m[j]}

NoScriptCsv == [written |-> FALSE, header |-> <<>>, rows |-> <<>>]
NoScriptResult == [done |-> FALSE, header |-> <<>>, rows |-> <<>>]

Begin(function, argument) == [event |-> "begin", function |-> function, argument |-> argument]
Return(function, argument) == [event |-> "return", function |-> function, argument |-> argument]

ScriptInit ==
    /\ scriptMap \in MapChoices
    /\ scripts \in [ScriptNames -> ScriptChoices]
    /\ scriptPhase = "executing"
    /\ scriptPc = [s \in ScriptNames |-> "parsed"]
    /\ objectIndex = [s \in ScriptNames |-> 1]
    /\ statements = [s \in ScriptNames |-> <<>>]
    /\ array = [s \in ScriptNames |-> <<>>]
    /\ collected = [s \in ScriptNames |-> <<>>]
    /\ scriptResult = [s \in ScriptNames |-> NoScriptResult]
    /\ scriptCsv = [s \in ScriptNames |-> NoScriptCsv]
    /\ callLog = [s \in ScriptNames |-> <<>>]
    /\ ScriptRestIdle

\* execute_script enters call_headers: engine.call_fn(.., "headers", ()).
CallHeaders(s) ==
    /\ scriptPhase = "executing"
    /\ scriptPc[s] = "parsed"
    /\ scriptPc' = [scriptPc EXCEPT ![s] = "headers"]
    /\ callLog' = [callLog EXCEPT ![s] = Append(@, Begin("headers", <<>>))]
    /\ UNCHANGED <<scriptMap, scripts, scriptPhase, objectIndex, statements, array,
                   collected, scriptResult, scriptCsv, scriptRest>>

\* headers() returns and call_headers looks sort_by up in the columns: the
\* unwrap of a missing column panics.
CallHeadersReturn(s) ==
    /\ scriptPhase = "executing"
    /\ scriptPc[s] = "headers"
    /\ callLog' = [callLog EXCEPT ![s] = Append(@, Return("headers", <<>>))]
    /\ IF Position(Columns, scripts[s].sort_by) = 0
       THEN scriptPhase' = "aborted" /\ scriptPc' = scriptPc
       ELSE scriptPhase' = scriptPhase /\ scriptPc' = [scriptPc EXCEPT ![s] = "objects"]
    /\ UNCHANGED <<scriptMap, scripts, objectIndex, statements, array, collected,
                   scriptResult, scriptCsv, scriptRest>>

\* The flat_map of aggregate_rows enters call_rows for the next object:
\* engine.call_fn(.., "rows", (pid,)) with a new scope.
CallRows(s) ==
    /\ scriptPhase = "executing"
    /\ scriptPc[s] = "objects"
    /\ objectIndex[s] <= Len(scriptMap)
    /\ scriptPc' = [scriptPc EXCEPT ![s] = "rows"]
    /\ statements' = [statements EXCEPT
                         ![s] = Program(scripts[s].kind, ObjectAt(scriptMap, objectIndex[s]))]
    /\ array' = [array EXCEPT ![s] = <<>>]
    /\ callLog' = [callLog EXCEPT
                      ![s] = Append(@, Begin("rows", ObjectAt(scriptMap, objectIndex[s])))]
    /\ UNCHANGED <<scriptMap, scripts, scriptPhase, objectIndex, collected,
                   scriptResult, scriptCsv, scriptRest>>

\* The running rows function executes its next statement; a panic of the
\* registered operator exits the process.
Statement(s) ==
    /\ scriptPhase = "executing"
    /\ scriptPc[s] = "rows"
    /\ statements[s] # <<>>
    /\ \E executed \in {Execute(Head(statements[s]), array[s])} :
          IF executed.panic
          THEN scriptPhase' = "aborted" /\ UNCHANGED <<statements, array>>
          ELSE /\ scriptPhase' = scriptPhase
               /\ statements' = [statements EXCEPT ![s] = Tail(@)]
               /\ array' = [array EXCEPT ![s] = executed.array]
    /\ UNCHANGED <<scriptMap, scripts, scriptPc, objectIndex, collected, scriptResult,
                   scriptCsv, callLog, scriptRest>>

\* rows(pid) returns: call_rows converts the result and flat_map takes its
\* rows; the iterator moves to the next object.
CallRowsReturn(s) ==
    /\ scriptPhase = "executing"
    /\ scriptPc[s] = "rows"
    /\ statements[s] = <<>>
    /\ collected' = [collected EXCEPT ![s] = @ \o ConsumeResult(array[s])]
    /\ array' = [array EXCEPT ![s] = <<>>]
    /\ callLog' = [callLog EXCEPT
                      ![s] = Append(@, Return("rows", ObjectAt(scriptMap, objectIndex[s])))]
    /\ objectIndex' = [objectIndex EXCEPT ![s] = @ + 1]
    /\ scriptPc' = [scriptPc EXCEPT ![s] = "objects"]
    /\ UNCHANGED <<scriptMap, scripts, scriptPhase, statements, scriptResult, scriptCsv,
                   scriptRest>>

\* Every object has been visited: aggregate_rows filters the identical rows
\* and sorts, and execute_script returns.
AggregateRows(s) ==
    /\ scriptPhase = "executing"
    /\ scriptPc[s] = "objects"
    /\ objectIndex[s] > Len(scriptMap)
    /\ \E rows \in {aggregate_rows(collected[s], Position(Columns, scripts[s].sort_by))} :
          scriptResult' = [scriptResult EXCEPT
                              ![s] = [done |-> TRUE, header |-> Columns, rows |-> rows]]
    /\ scriptPc' = [scriptPc EXCEPT ![s] = "executed"]
    /\ UNCHANGED <<scriptMap, scripts, scriptPhase, objectIndex, statements, array,
                   collected, scriptCsv, callLog, scriptRest>>

\* create_csv of one script, once the results of all scripts are collected.
CreateCsv(s) ==
    /\ scriptPhase = "executing"
    /\ \A t \in ScriptNames : scriptPc[t] \in {"executed", "written"}
    /\ scriptPc[s] = "executed"
    /\ scriptCsv' = [scriptCsv EXCEPT
                        ![s] = [written |-> TRUE, header |-> scriptResult[s].header,
                                rows |-> scriptResult[s].rows]]
    /\ scriptPc' = [scriptPc EXCEPT ![s] = "written"]
    /\ UNCHANGED <<scriptMap, scripts, scriptPhase, objectIndex, statements, array,
                   collected, scriptResult, callLog, scriptRest>>

ScriptNext ==
    \E s \in ScriptNames :
        \/ CallHeaders(s)
        \/ CallHeadersReturn(s)
        \/ CallRows(s)
        \/ Statement(s)
        \/ CallRowsReturn(s)
        \/ AggregateRows(s)
        \/ CreateCsv(s)

ScriptSpec == ScriptInit /\ [][ScriptNext]_vars


-----------------------------------------------------------------------------
(* Properties of the scripts (checked under ScriptSpec) *)

\* C13: the rows written to a script's CSV contain no two identical rows,
\* and the rows written are exactly the distinct rows its rows calls
\* returned: each of them is written once.
ScriptRowsDeduplicated ==
    \A s \in ScriptNames :
        scriptCsv[s].written =>
            /\ \A i, j \in 1..Len(scriptCsv[s].rows) :
                  i # j => scriptCsv[s].rows[i] # scriptCsv[s].rows[j]
            /\ Range(scriptCsv[s].rows) = Range(collected[s])
            /\ \A k \in 1..Len(collected[s]) : Count(scriptCsv[s].rows, collected[s][k]) = 1

\* C13 witness: a script whose rows calls returned the same row more than
\* once, and at least two distinct rows, has its CSV written.
ScriptRowsDeduplicatedWitness ==
    \E s \in ScriptNames :
        /\ scriptCsv[s].written
        /\ Len(scriptCsv[s].rows) >= 2
        /\ Len(collected[s]) > Len(scriptCsv[s].rows)

\* t is s without its leading and trailing whitespace.
IsTrimOf(t, s) ==
    /\ t # <<>> => Head(t) \notin Whitespace /\ Last(t) \notin Whitespace
    /\ \E a \in 1..(Len(s) + 1) :
          /\ a + Len(t) - 1 <= Len(s)
          /\ t = SubSeq(s, a, a + Len(t) - 1)
          /\ \A i \in 1..Len(s) : (i < a \/ i > a + Len(t) - 1) => s[i] \in Whitespace

\* The cell has a character that is not whitespace.
NonBlank(cell) == \E i \in 1..Len(cell) : cell[i] \notin Whitespace

\* The script s executes "array += row" on a row of strings in this step.
PlusAssignStep(s) ==
    /\ scriptPc[s] = "rows"
    /\ statements[s] # <<>>
    /\ Head(statements[s]).op = "+="
    /\ \A i \in 1..Len(Head(statements[s]).row) : Head(statements[s]).row[i].type = "string"
    /\ statements'[s] = Tail(statements[s])

\* C14: a step "array += row" leaves the array with the row appended, all
\* its cells trimmed, if some cell of the row is not blank, and leaves the
\* array unchanged if every cell is blank.
PlusAssignAppendsNonBlank ==
    [][\A s \in ScriptNames :
          PlusAssignStep(s) =>
             LET row == Head(statements[s]).row
             IN  IF \E i \in 1..Len(row) : NonBlank(row[i].value)
                 THEN /\ Len(array'[s]) = Len(array[s]) + 1
                      /\ SubSeq(array'[s], 1, Len(array[s])) = array[s]
                      /\ Len(Last(array'[s])) = Len(row)
                      /\ \A i \in 1..Len(row) :
                            /\ Last(array'[s])[i].type = "string"
                            /\ IsTrimOf(Last(array'[s])[i].value, row[i].value)
                 ELSE array'[s] = array[s]]_vars

\* C14 witness: the rows call of a perObject script has executed both its
\* statements: the row with " a b<tab>" is in the array as "a b", the row
\* of blank cells is not.
PlusAssignAppendsNonBlankWitness ==
    \E s \in ScriptNames :
        /\ scripts[s].kind = "perObject"
        /\ scriptPc[s] = "rows"
        /\ statements[s] = <<>>
        /\ array[s] = <<<<DynString(PidA2), DynString(<<"a", " ", "b">>)>>>>

\* The calls into a script that runs to its end: headers once, then rows
\* once per object of the map in key order, each call returned before the
\* next begins.
FullCallLog ==
    <<Begin("headers", <<>>), Return("headers", <<>>)>>
        \o Concat([i \in 1..Len(scriptMap) |->
                      <<Begin("rows", scriptMap[i]), Return("rows", scriptMap[i])>>])

RECURSIVE Evaluate(_, _)
Evaluate(program, arr) ==
    IF program = <<>> THEN arr
    ELSE Evaluate(Tail(program), Execute(Head(program), arr).array)

\* What the rows calls of a script return when it runs alone, object after
\* object.
RowsAlone(s) ==
    Concat([i \in 1..Len(scriptMap) |->
               ConsumeResult(Evaluate(Program(scripts[s].kind, scriptMap[i]), <<>>))])

\* C19: the calls into each script are a prefix of: headers, then rows(pid)
\* for every object in alphanumeric PID order, each call returned before
\* the next begins; a script that has run to its end has made all of them,
\* and its rows are those it returns when it runs alone: the distinct rows,
\* in the order of the sort_by column and, within equal cells, of the rows.
ScriptCallOrder ==
    /\ \A i, j \in 1..Len(scriptMap) :
          i < j => compare_str(scriptMap[i], scriptMap[j]) = "Less"
    /\ \A s \in ScriptNames :
          /\ IsPrefix(callLog[s], FullCallLog)
          /\ scriptPhase = "executing" =>
                (scriptPc[s] \in {"rows", "headers"} <=>
                    (callLog[s] # <<>> /\ Last(callLog[s]).event = "begin"))
          /\ scriptResult[s].done =>
                LET rows == scriptResult[s].rows
                    col == Position(Columns, scripts[s].sort_by)
                IN  /\ callLog[s] = FullCallLog
                    /\ Range(rows) = Range(RowsAlone(s))
                    /\ \A i, j \in 1..Len(rows) :
                          i < j =>
                             \/ compare_str(rows[i][col], rows[j][col]) = "Less"
                             \/ /\ compare_str(rows[i][col], rows[j][col]) = "Equal"
                                /\ RowCmp(rows[i], rows[j]) = "Less"

\* C19 witness: over a map of two objects, one script has made all its
\* calls and has at least two rows, while the other script, of another
\* kind, is still inside the rows call of its first object.
ScriptCallOrderWitness ==
    /\ Len(scriptMap) = 2
    /\ scriptResult["s1"].done
    /\ Len(scriptResult["s1"].rows) >= 2
    /\ callLog["s1"] = FullCallLog
    /\ scriptPc["s2"] = "rows"
    /\ objectIndex["s2"] = 1
    /\ array["s2"] # <<>>
    /\ scripts["s1"].kind # scripts["s2"].kind


-----------------------------------------------------------------------------
(* File names of the Fedora stores (src/src/migrate/identifiers.rs).  A     *)
(* name is a sequence of characters.                                        *)

\* info%3Afedora%2F
InfoFedora ==
    <<"i", "n", "f", "o", "%", "3", "A", "f", "e", "d", "o", "r", "a", "%", "2", "F">>
\* %3A
EncodedColon == <<"%", "3", "A">>
\* %2F
EncodedSlash == <<"%", "2", "F">>
\* %5F, the one key of ENCODING
EncodedUnderscore == <<"%", "5", "F">>

\* The positions at which pattern occurs in s.
Occurrences(s, pattern) ==
    {i \in 1..(Len(s) - Len(pattern) + 1) : SubSeq(s, i, i + Len(pattern) - 1) = pattern}

Max(S) == CHOOSE i \in S : \A j \in S : j <= i

\* str::replace: every occurrence, from left to right.
RECURSIVE Replace(_, _, _)
Replace(s, from, to) ==
    IF Len(s) < Len(from) THEN s
    ELSE IF SubSeq(s, 1, Len(from)) = from
    THEN to \o Replace(SubSeq(s, Len(from) + 1, Len(s)), from, to)
    ELSE <<Head(s)>> \o Replace(Tail(s), from, to)

\* decode with no entry in ENCODING.
DecodeNothing(s) == s

\* decode: the fold over ENCODING, which maps %5F to _.
decode(s) == Replace(s, EncodedUnderscore, <<"_">>)

\* OBJECT_FILE_REGEX.captures: info%3Afedora%2F(.*)%3A(.*), unanchored, the
\* leftmost match with greedy groups; <<>> when there is no match.
ObjectFileCaptures(name) ==
    LET starts == {p \in Occurrences(name, InfoFedora) :
                      \E c \in Occurrences(name, EncodedColon) : c >= p + Len(InfoFedora)}
    IN  IF starts = {} THEN <<>>
        ELSE LET p == First(starts)
                 c == Max({c \in Occurrences(name, EncodedColon) : c >= p + Len(InfoFedora)})
             IN  <<SubSeq(name, p + Len(InfoFedora), c - 1),
                   SubSeq(name, c + Len(EncodedColon), Len(name))>>

\* The separators a match of DATASTREAM_FILE_REGEX starting at p can use:
\* a %3A followed by two %2F.
DatastreamSeparators(name, p) ==
    {sep \in Occurrences(name, EncodedColon) \X Occurrences(name, EncodedSlash)
                \X Occurrences(name, EncodedSlash) :
        /\ sep[1] >= p + Len(InfoFedora)
        /\ sep[2] >= sep[1] + Len(EncodedColon)
        /\ sep[3] >= sep[2] + Len(EncodedSlash)}

\* DATASTREAM_FILE_REGEX.captures: info%3Afedora%2F(.*)%3A(.*)%2F(.*)%2F(.*),
\* unanchored, the leftmost match; each greedy group takes the longest
\* text that lets the rest match, the first group first.
DatastreamFileCaptures(name) ==
    LET starts == {p \in Occurrences(name, InfoFedora) : DatastreamSeparators(name, p) # {}}
    IN  IF starts = {} THEN <<>>
        ELSE LET p == First(starts)
                 seps == DatastreamSeparators(name, p)
                 c == Max({sep[1] : sep \in seps})
                 s1 == Max({sep[2] : sep \in {x \in seps : x[1] = c}})
                 s2 == Max({sep[3] : sep \in {x \in seps : x[1] = c /\ x[2] = s1}})
             IN  <<SubSeq(name, p + Len(InfoFedora), c - 1),
                   SubSeq(name, c + Len(EncodedColon), s1 - 1),
                   SubSeq(name, s1 + Len(EncodedSlash), s2 - 1),
                   SubSeq(name, s2 + Len(EncodedSlash), Len(name))>>

\* ObjectIdentifier::from_path on a file name
ObjectIdentifierFromPath(name) ==
    LET capture == ObjectFileCaptures(name)
    IN  IF capture = <<>> THEN None
        ELSE Some([pid |-> decode(capture[1]) \o <<":">> \o decode(capture[2])])

\* DatastreamIdentifier::from_path on a file name
DatastreamIdentifierFromPath(name) ==
    LET capture == DatastreamFileCaptures(name)
    IN  IF capture = <<>> THEN None
        ELSE Some([pid |-> decode(capture[1]) \o <<":">> \o decode(capture[2]),
                   dsid |-> decode(capture[3]),
                   version |-> decode(capture[4])])

-----------------------------------------------------------------------------
(* IdentSpec: identify_files finds one file of a store and identifies it.   *)

MaxFragment == 2

\* The characters of the parts of an identifier.
SafeCharacters == {"a", "1", "_"}

\* The namespaces and local names of the PIDs.
Fragments == UNION {[1..n -> SafeCharacters] : n \in 1..MaxFragment}

DsidChoices == {<<"D", "C">>, <<"T", "_", "M">>}

\* The suffix of a version id: the version of a datastream D is D.<suffix>.
VersionSuffixes == {<<"0">>, <<"1", "0">>}

\* The name Fedora gives a part on disk: _ is written %5F.
EncodePart(s) == Replace(s, <<"_">>, EncodedUnderscore)

ObjectFileName(ns, local) == InfoFedora \o EncodePart(ns) \o EncodedColon \o EncodePart(local)

DatastreamFileName(ns, local, dsid, version) ==
    ObjectFileName(ns, local) \o EncodedSlash \o EncodePart(dsid)
        \o EncodedSlash \o EncodePart(version)

\* The parts of the names of a store: objects have no dsid and no version.
PartChoices ==
    [ns : Fragments, local : Fragments, dsid : {<<>>}, version : {<<>>}]
        \cup {[ns |-> ns, local |-> local, dsid |-> dsid, version |-> dsid \o <<".">> \o n] :
                 ns \in Fragments, local \in Fragments, dsid \in DsidChoices,
                 n \in VersionSuffixes}

\* Files of a store that are not named after an identifier.
OtherFileNames ==
    {<<"a">>, InfoFedora \o <<"a">>, InfoFedora \o <<"a">> \o EncodedSlash \o <<"a">>}

NameOf(p) ==
    IF p.dsid = <<>> THEN ObjectFileName(p.ns, p.local)
    ELSE DatastreamFileName(p.ns, p.local, p.dsid, p.version)

IdentInit ==
    /\ identStore \in {"objectStore", "datastreamStore"}
    /\ \/ parts \in PartChoices /\ fileName = NameOf(parts)
       \/ parts = <<>> /\ fileName \in OtherFileNames
    /\ identStep = "found"
    /\ identifier = None
    /\ IdentRestIdle

\* identify_files::<ObjectIdentifier>: T::from_path on a file of the
\* objectStore.
IdentifyObjectFile ==
    /\ identStore = "objectStore"
    /\ identStep = "found"
    /\ identifier' = ObjectIdentifierFromPath(fileName)
    /\ identStep' = "identified"
    /\ UNCHANGED <<identStore, parts, fileName, identRest>>

\* identify_files::<DatastreamIdentifier>: T::from_path on a file of the
\* datastreamStore.
IdentifyDatastreamFile ==
    /\ identStore = "datastreamStore"
    /\ identStep = "found"
    /\ identifier' = DatastreamIdentifierFromPath(fileName)
    /\ identStep' = "identified"
    /\ UNCHANGED <<identStore, parts, fileName, identRest>>

IdentNext == IdentifyObjectFile \/ IdentifyDatastreamFile

IdentSpec == IdentInit /\ [][IdentNext]_vars

-----------------------------------------------------------------------------
(* Properties of the identifiers (checked under IdentSpec) *)

\* C15: the object file named info%3Afedora%2F<ns>%3A<local> is identified
\* as the pid ns:local, and the datastream file named
\* info%3Afedora%2F<ns>%3A<local>%2F<dsid>%2F<version> as exactly
\* (ns:local, dsid, version), where every _ of a part is written %5F in
\* the name.
IdentifierRoundTrip ==
    (identStep = "identified" /\ parts # <<>>) =>
        /\ (identStore = "objectStore" /\ parts.dsid = <<>>) =>
              identifier = Some([pid |-> parts.ns \o <<":">> \o parts.local])
        /\ (identStore = "datastreamStore" /\ parts.dsid # <<>>) =>
              identifier = Some([pid |-> parts.ns \o <<":">> \o parts.local,
                                 dsid |-> parts.dsid,
                                 version |-> parts.version])

\* C15 witness: the datastream file of a PID with _ in its namespace and
\* its local name, and of a dsid with _, is identified.
IdentifierRoundTripWitness ==
    /\ identStep = "identified"
    /\ identStore = "datastreamStore"
    /\ parts # <<>>
    /\ parts.dsid = <<"T", "_", "M">>
    /\ parts.ns = <<"a", "_">>
    /\ parts.local = <<"_", "1">>
    /\ identifier # None
    /\ fileName # InfoFedora \o parts.ns \o EncodedColon \o parts.local
                     \o EncodedSlash \o parts.dsid \o EncodedSlash \o parts.version


-----------------------------------------------------------------------------
(* The inline-XML extractor (src/src/migrate/inline.rs).  The FOXML is the  *)
(* sequence of events quick_xml reads from it; an event is                  *)
(* [kind, name, id, control_group, text], where id is the PID or ID         *)
(* attribute.  The content extracted for a version is the sequence of       *)
(* events given to the Writer.                                              *)

StartEvent(name, id, group) ==
    [kind |-> "Start", name |-> name, id |-> id, control_group |-> group, text |-> <<>>]
EndEvent(name) ==
    [kind |-> "End", name |-> name, id |-> <<>>, control_group |-> "", text |-> <<>>]
EmptyEvent(name) ==
    [kind |-> "Empty", name |-> name, id |-> <<>>, control_group |-> "", text |-> <<>>]
TextEvent(text) ==
    [kind |-> "Text", name |-> "", id |-> <<>>, control_group |-> "", text |-> text]
DeclEvent ==
    [kind |-> "Decl", name |-> "", id |-> <<>>, control_group |-> "", text |-> <<>>]
EofEvent ==
    [kind |-> "Eof", name |-> "", id |-> <<>>, control_group |-> "", text |-> <<>>]

\* is_element
is_element(event, name) == event.kind \in {"Start", "End"} /\ event.name = name

\* is_inline_datastream
is_inline_datastream(event) ==
    /\ event.kind = "Start"
    /\ is_element(event, "foxml:datastream")
    /\ event.control_group = "X"

\* get_pid from the position pos: the PID of the first foxml:digitalObject,
\* and a panic at Eof.
RECURSIVE get_pid(_, _)
get_pid(events, pos) ==
    IF events[pos].kind = "Start" /\ is_element(events[pos], "foxml:digitalObject")
    THEN [panic |-> FALSE, pos |-> pos + 1, value |-> events[pos].id]
    ELSE IF events[pos].kind = "Eof" THEN [panic |-> TRUE, pos |-> pos, value |-> <<>>]
    ELSE get_pid(events, pos + 1)

\* next_inline_datastream
RECURSIVE next_inline_datastream(_, _)
next_inline_datastream(events, pos) ==
    IF is_inline_datastream(events[pos])
    THEN [found |-> TRUE, pos |-> pos + 1, value |-> events[pos].id]
    ELSE IF events[pos].kind = "Eof" THEN [found |-> FALSE, pos |-> pos, value |-> <<>>]
    ELSE next_inline_datastream(events, pos + 1)

\* next_datastream_version
RECURSIVE next_datastream_version(_, _)
next_datastream_version(events, pos) ==
    IF events[pos].kind = "Start" /\ is_element(events[pos], "foxml:datastreamVersion")
    THEN [found |-> TRUE, pos |-> pos + 1, value |-> events[pos].id]
    ELSE IF events[pos].kind = "End" /\ is_element(events[pos], "foxml:datastream")
    THEN [found |-> FALSE, pos |-> pos + 1, value |-> <<>>]
    ELSE IF events[pos].kind = "Eof" THEN [found |-> FALSE, pos |-> pos, value |-> <<>>]
    ELSE next_datastream_version(events, pos + 1)

\* The loop of extract_inline_datastream_version: written is what the
\* Writer has been given.  At Eof the loop writes the Eof event and reads
\* again, without end.
RECURSIVE ExtractFrom(_, _, _)
ExtractFrom(events, pos, written) ==
    IF events[pos].kind = "Start" /\ is_element(events[pos], "foxml:xmlContent")
    THEN ExtractFrom(events, pos + 1, written)
    ELSE IF events[pos].kind = "End" /\ is_element(events[pos], "foxml:xmlContent")
    THEN [hang |-> FALSE, pos |-> pos + 1, written |-> written]
    ELSE IF events[pos].kind = "Text"
    THEN ExtractFrom(events, pos + 1,
                     IF trim(events[pos].text) # <<>> THEN Append(written, events[pos])
                     ELSE written)
    ELSE IF events[pos].kind = "Eof" THEN [hang |-> TRUE, pos |-> pos, written |-> written]
    ELSE ExtractFrom(events, pos + 1, Append(written, events[pos]))

\* extract_inline_datastream_version: the declaration is written first.
extract_inline_datastream_version(events, pos) == ExtractFrom(events, pos, <<DeclEvent>>)

\* DatastreamContentMap::insert: the entry of an identifier is replaced.
ContentMapInsert(map, pid, dsid, version, content) ==
    {r \in map : ~(r.pid = pid /\ r.dsid = dsid /\ r.version = version)}
        \cup {[pid |-> pid, dsid |-> dsid, version |-> version, content |-> content]}

-----------------------------------------------------------------------------
(* InlineSpec: extract_inline_datastreams on one object file.               *)

MaxDatastreams == 2

\* Whitespace between two tags of a pretty-printed FOXML.
Indent == TextEvent(<<" ", " ">>)

\* The inner trees of inline datastream versions.
BodyModel ==
    <<StartEvent("rdf:RDF", <<>>, ""), Indent, EmptyEvent("fedora-model:hasModel"),
      Indent, EndEvent("rdf:RDF")>>
BodyTitle ==
    <<StartEvent("oai_dc:dc", <<>>, ""), StartEvent("dc:title", <<>>, ""),
      TextEvent(<<" ", "a", " ", "b">>), EndEvent("dc:title"), EndEvent("oai_dc:dc")>>

\* A datastream version of a FOXML: digest says a foxml:contentDigest
\* element precedes its content.
VersionDoc(dsid, n, digest, body) ==
    [id |-> VersionId(dsid, n), digest |-> digest, wrapped |-> TRUE, body |-> body]

\* A datastream version without foxml:xmlContent.
BareVersionDoc(dsid, n) ==
    [id |-> VersionId(dsid, n), digest |-> FALSE, wrapped |-> FALSE, body |-> <<>>]

DcId == <<"D", "C">>

\* The datastreams a FOXML is made of.
DatastreamDocChoices ==
    {[id |-> RelsExtId, control_group |-> "X",
      versions |-> <<VersionDoc(RelsExtId, 0, FALSE, BodyModel)>>],
     [id |-> RelsExtId, control_group |-> "X",
      versions |-> <<VersionDoc(RelsExtId, 0, FALSE, BodyModel),
                     VersionDoc(RelsExtId, 1, FALSE, BodyTitle)>>],
     [id |-> ObjId, control_group |-> "M",
      versions |-> <<VersionDoc(ObjId, 0, FALSE, <<>>), VersionDoc(ObjId, 1, TRUE, <<>>)>>],
     [id |-> ObjId, control_group |-> "E",
      versions |-> <<VersionDoc(ObjId, 0, FALSE, <<>>)>>],
     [id |-> DcId, control_group |-> "X",
      versions |-> <<VersionDoc(DcId, 0, FALSE, BodyTitle)>>],
     [id |-> DcId, control_group |-> "X",
      versions |-> <<VersionDoc(DcId, 0, TRUE, BodyTitle)>>],
     [id |-> DcId, control_group |-> "X",
      versions |-> <<BareVersionDoc(DcId, 0)>>]}

\* The events of a datastream version: an inline version has its tree in
\* foxml:xmlContent, a bare one and any other a foxml:contentLocation.
VersionEvents(group, v) ==
    <<StartEvent("foxml:datastreamVersion", v.id, ""), Indent>>
        \o (IF v.digest THEN <<EmptyEvent("foxml:contentDigest"), Indent>> ELSE <<>>)
        \o (IF group = "X" /\ v.wrapped
            THEN <<StartEvent("foxml:xmlContent", <<>>, ""), Indent>> \o v.body
                     \o <<Indent, EndEvent("foxml:xmlContent")>>
            ELSE <<EmptyEvent("foxml:contentLocation")>>)
        \o <<Indent, EndEvent("foxml:datastreamVersion"), Indent>>

DatastreamEvents(d) ==
    <<StartEvent("foxml:datastream", d.id, d.control_group), Indent>>
        \o Concat([k \in 1..Len(d.versions) |-> VersionEvents(d.control_group, d.versions[k])])
        \o <<EndEvent("foxml:datastream"), Indent>>

\* What the Reader reads from the file of a FOXML.
FoxmlEvents(doc) ==
    <<DeclEvent, StartEvent("foxml:digitalObject", doc.pid, ""), Indent,
      StartEvent("foxml:objectProperties", <<>>, ""), Indent,
      EmptyEvent("foxml:property"), Indent, EndEvent("foxml:objectProperties"), Indent>>
        \o Concat([n \in 1..Len(doc.datastreams) |-> DatastreamEvents(doc.datastreams[n])])
        \o <<EndEvent("foxml:digitalObject"), EofEvent>>

\* The FOXML files: up to MaxDatastreams datastreams of different ids.
FoxmlDocChoices ==
    {doc \in [pid : {PidA1, PidA10},
              datastreams : UNION {[1..n -> DatastreamDocChoices] : n \in 0..MaxDatastreams}] :
        \A i, j \in 1..Len(doc.datastreams) :
            i # j => doc.datastreams[i].id # doc.datastreams[j].id}

InlineInit ==
    /\ foxmlDoc \in FoxmlDocChoices
    /\ inlinePc = "pid"
    /\ reader = 1
    /\ inlinePid = <<>>
    /\ inlineDsid = <<>>
    /\ inlineVersion = <<>>
    /\ inlineResults = {}
    /\ InlineRestIdle

\* extract_inline_datastreams: the file is read and get_pid captures the PID.
GetPid ==
    /\ inlinePc = "pid"
    /\ \E got \in {get_pid(FoxmlEvents(foxmlDoc), reader)} :
          /\ inlinePc' = IF got.panic THEN "panic" ELSE "datastream"
          /\ reader' = got.pos
          /\ inlinePid' = got.value
    /\ UNCHANGED <<foxmlDoc, inlineDsid, inlineVersion, inlineResults, inlineRest>>

\* The outer loop: next_inline_datastream; None returns the results.
NextInlineDatastream ==
    /\ inlinePc = "datastream"
    /\ \E got \in {next_inline_datastream(FoxmlEvents(foxmlDoc), reader)} :
          /\ inlinePc' = IF got.found THEN "version" ELSE "done"
          /\ reader' = got.pos
          /\ inlineDsid' = got.value
    /\ UNCHANGED <<foxmlDoc, inlinePid, inlineVersion, inlineResults, inlineRest>>

\* The inner loop: next_datastream_version; None leaves the inner loop.
NextDatastreamVersion ==
    /\ inlinePc = "version"
    /\ \E got \in {next_datastream_version(FoxmlEvents(foxmlDoc), reader)} :
          /\ inlinePc' = IF got.found THEN "content" ELSE "datastream"
          /\ reader' = got.pos
          /\ inlineVersion' = got.value
    /\ UNCHANGED <<foxmlDoc, inlinePid, inlineDsid, inlineResults, inlineRest>>

\* The body of the inner loop: extract_inline_datastream_version and the
\* insert of its content under (pid, dsid, version).
ExtractInlineDatastreamVersion ==
    /\ inlinePc = "content"
    /\ \E got \in {extract_inline_datastream_version(FoxmlEvents(foxmlDoc), reader)} :
          /\ inlinePc' = IF got.hang THEN "hang" ELSE "version"
          /\ reader' = got.pos
          /\ inlineResults' =
                IF got.hang THEN inlineResults
                ELSE ContentMapInsert(inlineResults, inlinePid, inlineDsid, inlineVersion,
                                      got.written)
    /\ UNCHANGED <<foxmlDoc, inlinePid, inlineDsid, inlineVersion, inlineRest>>

InlineNext ==
    \/ GetPid
    \/ NextInlineDatastream
    \/ NextDatastreamVersion
    \/ ExtractInlineDatastreamVersion

InlineSpec == InlineInit /\ [][InlineNext]_vars

\* The thread of extract_inline_datastreams runs while it has a step to take.
InlineLiveSpec == InlineInit /\ [][InlineNext]_vars /\ WF_vars(InlineNext)

-----------------------------------------------------------------------------
(* Properties of the inline extractor (checked under InlineSpec) *)

\* The events of a tree without the text that is only whitespace.
Significant(body) ==
    LET keep(e) == e.kind # "Text" \/ NonBlank(e.text)
    IN  SelectSeq(body, keep)

\* One entry for every version of every datastream of control group X: the
\* declaration, then the events between the xmlContent tags.
ExpectedInline(doc) ==
    {[pid |-> doc.pid, dsid |-> doc.datastreams[n].id,
      version |-> doc.datastreams[n].versions[k].id,
      content |-> <<DeclEvent>> \o Significant(doc.datastreams[n].versions[k].body)] :
        <<n, k>> \in {x \in (1..Len(doc.datastreams)) \X (1..2) :
                        /\ doc.datastreams[x[1]].control_group = "X"
                        /\ x[2] <= Len(doc.datastreams[x[1]].versions)}}

\* C20: the extraction of a FOXML returns exactly one entry (P, dsid,
\* version) for every version of every datastream of control group X, whose
\* content is the declaration followed by the events between the version's
\* xmlContent tags without whitespace-only text, and nothing for the other
\* datastreams.
InlineExtractionExact ==
    inlinePc = "done" => inlineResults = ExpectedInline(foxmlDoc)


-----------------------------------------------------------------------------
(* The migration of the managed datastreams (migrate_managed_datastreams,   *)
(* src/src/migrate/lib.rs).  A file of the datastreamStore is its file      *)
(* name; a destination is the sequence of its path components.  A           *)
(* DatastreamPathMap is the set of its [identifier, path] entries.          *)

\* identify_files::<DatastreamIdentifier>: the files that from_path
\* identifies, under their identifiers.
identify_files(store) ==
    {[identifier |-> DatastreamIdentifierFromPath(name)[1], path |-> name] :
        name \in {n \in store : DatastreamIdentifierFromPath(n) # None}}

\* foxml::extensions::version_file_name: the file name chosen for a
\* version, which the FOXML of the model carries with the version.
version_file_name(version) == version.file_name

\* DatastreamIdentifier::as_path
as_path(id) == <<id.pid, id.dsid, id.version>>

\* The entries datastreams() makes of one datastream of an object.
VersionEntries(obj, ds, dest) ==
    {[identifier |-> [pid |-> obj.pid, dsid |-> ds.id,
                      version |-> ds.versions[k].id],
      path |-> dest
                 \o as_path([pid |-> obj.pid, dsid |-> ds.id,
                             version |-> ds.versions[k].id])
                 \o <<version_file_name(ds.versions[k])>>] :
        k \in 1..Len(ds.versions)}

\* datastreams() without the filter on the control group.
DatastreamsOfAnyGroup(objects, group, dest) ==
    UNION {VersionEntries(obj, obj.datastreams[n], dest) :
              <<obj, n>> \in {x \in objects \X (1..2) : x[2] <= Len(x[1].datastreams)}}

\* datastreams(): the versions of the datastreams of the given control
\* group of every object, with their destinations under dest.
datastreams(objects, group, dest) ==
    UNION {VersionEntries(obj, obj.datastreams[n], dest) :
              <<obj, n>> \in {x \in objects \X (1..2) :
                                    /\ x[2] <= Len(x[1].datastreams)
                                    /\ x[1].datastreams[x[2]].control_group = group}}

\* keys() of a DatastreamPathMap
Keys(map) == {entry.identifier : entry \in map}

\* map[&key]
PathOf(map, key) == (CHOOSE entry \in map : entry.identifier = key).path

-----------------------------------------------------------------------------
(* ManagedSpec: migrate_managed_datastreams over a datastreamStore and the  *)
(* FOXML parsed from the migrated obj files.                             *)

MaxStoreFiles == 4

\* The directory the managed datastreams are staged in.
StagedDatastreams == <<<<"d", "a", "t", "a", "s", "t", "r", "e", "a", "m", "s">>>>

\* A version of a FOXML as datastreams() reads it.
ManagedVersion(dsid, n, file_name) == [id |-> VersionId(dsid, n), file_name |-> file_name]

\* A file name made of the identifier, and one taken from a label.
GeneratedName == <<"a", "_", "1", ".", "b", "i", "n">>
LabelName == <<"b", ".", "p", "d", "f">>

\* The FOXML of a:1 and of a_1:1: a managed OBJ with one or two versions,
\* or an external OBJ, and an inline DC.
FoxmlA1Choices ==
    {[pid |-> PidA1,
      datastreams |-> <<[id |-> ObjId, control_group |-> "M",
                         versions |-> <<ManagedVersion(ObjId, 0, LabelName),
                                        ManagedVersion(ObjId, 1, GeneratedName)>>],
                        [id |-> DcId, control_group |-> "X",
                         versions |-> <<ManagedVersion(DcId, 0, GeneratedName)>>]>>],
     [pid |-> PidA1,
      datastreams |-> <<[id |-> ObjId, control_group |-> "M",
                         versions |-> <<ManagedVersion(ObjId, 0, GeneratedName)>>]>>],
     [pid |-> PidA1,
      datastreams |-> <<[id |-> ObjId, control_group |-> "E",
                         versions |-> <<ManagedVersion(ObjId, 0, LabelName)>>]>>]}

PidUnderscore == <<"a", "_", "1", ":", "1">>

FoxmlUnderscoreChoices ==
    {[pid |-> PidUnderscore,
      datastreams |-> <<[id |-> ObjId, control_group |-> "M",
                         versions |-> <<ManagedVersion(ObjId, 0, LabelName)>>]>>]}

\* The FoxmlPathMap: at most one FOXML per PID.
FoxmlObjectsChoices ==
    {a \cup b : a \in {{}} \cup {{f} : f \in FoxmlA1Choices},
                b \in {{}} \cup {{f} : f \in FoxmlUnderscoreChoices}}

\* The files a datastreamStore can hold: every name is that of a different
\* datastream version, or of none.
StoreFileChoices ==
    {DatastreamFileName(<<"a">>, <<"1">>, ObjId, VersionId(ObjId, 0)),
     DatastreamFileName(<<"a">>, <<"1">>, ObjId, VersionId(ObjId, 1)),
     DatastreamFileName(<<"a">>, <<"1">>, DcId, VersionId(DcId, 0)),
     DatastreamFileName(<<"a", "_", "1">>, <<"1">>, ObjId, VersionId(ObjId, 0)),
     InfoFedora \o <<"a">>}

ManagedInit ==
    /\ datastreamStore \in {S \in SUBSET StoreFileChoices : Cardinality(S) <= MaxStoreFiles}
    /\ foxmlObjects \in FoxmlObjectsChoices
    /\ managedPc = "identify"
    /\ managedFiles = {}
    /\ managedDatastreams = {}
    /\ orphaned = {}
    /\ pathMap = {}
    /\ moverCalls = <<>>
    /\ stagedPaths = {}
    /\ ManagedRestIdle

\* let files = identify_files(&src)
IdentifyFiles ==
    /\ managedPc = "identify"
    /\ managedFiles' = identify_files(datastreamStore)
    /\ managedPc' = "datastreams"
    /\ UNCHANGED <<datastreamStore, foxmlObjects, managedDatastreams, orphaned, pathMap,
                   moverCalls, stagedPaths, managedRest>>

\* let managed_datastreams = datastreams(&objects, FoxmlControlGroup::M, &dest)
ManagedDatastreams ==
    /\ managedPc = "datastreams"
    /\ managedDatastreams' = datastreams(foxmlObjects, "M", StagedDatastreams)
    /\ managedPc' = "unreferenced"
    /\ UNCHANGED <<datastreamStore, foxmlObjects, managedFiles, orphaned, pathMap,
                   moverCalls, stagedPaths, managedRest>>

\* The difference of the keys, warned about as orphaned.
WarnUnreferenced ==
    /\ managedPc = "unreferenced"
    /\ orphaned' = Keys(managedFiles) \ Keys(managedDatastreams)
    /\ managedPc' = "files"
    /\ UNCHANGED <<datastreamStore, foxmlObjects, managedFiles, managedDatastreams, pathMap,
                   moverCalls, stagedPaths, managedRest>>

\* The files to migrate: the intersection of the keys, each from its path
\* in the store to its path under dest.
FilesToMigrate ==
    /\ managedPc = "files"
    /\ pathMap' = {[src |-> PathOf(managedFiles, key),
                    dest |-> PathOf(managedDatastreams, key)] :
                      key \in Keys(managedFiles) \cap Keys(managedDatastreams)}
    /\ managedPc' = "migrate"
    /\ UNCHANGED <<datastreamStore, foxmlObjects, managedFiles, managedDatastreams, orphaned,
                   moverCalls, stagedPaths, managedRest>>

\* migrate_files: files.par_iter() gives every entry of the PathMap to the
\* file action, in any order.
MigrateFilesStep ==
    /\ managedPc = "migrate"
    /\ \E entry \in pathMap :
          /\ \A i \in 1..Len(moverCalls) : moverCalls[i].src # entry.src
          /\ moverCalls' = Append(moverCalls, entry)
          /\ stagedPaths' = stagedPaths \cup {entry.dest}
    /\ UNCHANGED <<datastreamStore, foxmlObjects, managedPc, managedFiles,
                   managedDatastreams, orphaned, pathMap, managedRest>>

\* migrate_files has collected the results of every entry.
MigrateFilesReturn ==
    /\ managedPc = "migrate"
    /\ \A entry \in pathMap : \E i \in 1..Len(moverCalls) : moverCalls[i].src = entry.src
    /\ managedPc' = "done"
    /\ UNCHANGED <<datastreamStore, foxmlObjects, managedFiles, managedDatastreams, orphaned,
                   pathMap, moverCalls, stagedPaths, managedRest>>

ManagedNext ==
    \/ IdentifyFiles
    \/ ManagedDatastreams
    \/ WarnUnreferenced
    \/ FilesToMigrate
    \/ MigrateFilesStep
    \/ MigrateFilesReturn

ManagedSpec == ManagedInit /\ [][ManagedNext]_vars

-----------------------------------------------------------------------------
(* Properties of the managed-ds migration (checked under            *)
(* ManagedSpec)                                                             *)

\* The files of the store that have an identifier.
IdentifiedFiles == {n \in datastreamStore : DatastreamIdentifierFromPath(n) # None}

\* The versions of the control-group-M datastreams of the parsed FOXML that
\* the file n is the file of: [pid, dsid, version, file_name].
ReferencesOf(n) ==
    LET id == DatastreamIdentifierFromPath(n)[1]
    IN  {[pid |-> obj.pid, dsid |-> obj.datastreams[k].id,
          version |-> obj.datastreams[k].versions[v].id,
          file_name |-> obj.datastreams[k].versions[v].file_name] :
            <<obj, k, v>> \in
                {x \in foxmlObjects \X (1..2) \X (1..2) :
                    /\ x[2] <= Len(x[1].datastreams)
                    /\ x[3] <= Len(x[1].datastreams[x[2]].versions)
                    /\ x[1].datastreams[x[2]].control_group = "M"
                    /\ x[1].pid = id.pid
                    /\ x[1].datastreams[x[2]].id = id.dsid
                    /\ x[1].datastreams[x[2]].versions[x[3]].id = id.version}}

Orphans == {n \in IdentifiedFiles : ReferencesOf(n) = {}}
ReferencedFiles == {n \in IdentifiedFiles : ReferencesOf(n) # {}}

CallsOf(n) == {i \in 1..Len(moverCalls) : moverCalls[i].src = n}

-----------------------------------------------------------------------------
(* The process-wide path roots of the csv crate (src/src/csv/lib.rs).  A    *)
(* path is the sequence of its components; the tree of an input path says   *)
(* which of its directories exist.                                          *)

\* Path::is_dir of the input path and of its two sub-directories.
IsDir(tree, path) ==
    CASE Len(path) = 1 -> tree[path[1]] # "missing"
      [] path[2] = "objects" -> tree[path[1]] \in {"objects", "both"}
      [] path[2] = "datastreams" -> tree[path[1]] \in {"datastreams", "both"}

\* valid_directory
valid_directory(tree, path) == IF IsDir(tree, path) THEN "Ok" ELSE "Err"

\* valid_source_directory on the roots [objects, datastreams]: the objects
\* directory is checked and set, then the datastreams directory is; the ?
\* operator returns at the first error.
valid_source_directory(tree, roots, path) ==
    IF valid_directory(tree, path) = "Err" THEN [result |-> "Err", roots |-> roots]
    ELSE IF valid_directory(tree, Append(path, "objects")) = "Err"
    THEN [result |-> "Err", roots |-> roots]
    ELSE IF valid_directory(tree, Append(path, "datastreams")) = "Err"
    THEN [result |-> "Err",
          roots |-> [roots EXCEPT !.objects = Some(Append(path, "objects"))]]
    ELSE [result |-> "Ok",
          roots |-> [objects |-> Some(Append(path, "objects")),
                     datastreams |-> Some(Append(path, "datastreams"))]]

-----------------------------------------------------------------------------
(* DirSpec: calls of valid_source_directory, one after the other.           *)

MaxCalls == 3

InputPaths == {"in1", "in2"}

\* What exists at an input path: nothing, the directory alone, or the
\* directory with either or both of its sub-directories.
TreeStates == {"missing", "empty", "objects", "datastreams", "both"}

DirInit ==
    /\ dirTree \in [InputPaths -> TreeStates]
    /\ OBJECTS_DIRECTORY = None
    /\ DATASTREAMS_DIRECTORY = None
    /\ dirCalls = 0
    /\ dirLast = <<>>
    /\ DirRestIdle

\* valid_source_directory(path)
ValidSourceDirectory(input) ==
    /\ dirCalls < MaxCalls
    /\ \E r \in {valid_source_directory(dirTree, [objects |-> OBJECTS_DIRECTORY,
                                                  datastreams |-> DATASTREAMS_DIRECTORY],
                                        <<input>>)} :
          /\ OBJECTS_DIRECTORY' = r.roots.objects
          /\ DATASTREAMS_DIRECTORY' = r.roots.datastreams
          /\ dirLast' = <<[path |-> input, result |-> r.result,
                           objects |-> OBJECTS_DIRECTORY,
                           datastreams |-> DATASTREAMS_DIRECTORY]>>
    /\ dirCalls' = dirCalls + 1
    /\ UNCHANGED <<dirTree, dirRest>>

DirNext == \E input \in InputPaths : ValidSourceDirectory(input)

DirSpec == DirInit /\ [][DirNext]_vars

-----------------------------------------------------------------------------
(* Properties of the path roots (checked under DirSpec) *)

\* C21: once both roots have been set by a successful call, no later call
\* of valid_source_directory, with the same or another path, changes the
\* value of either of them.
RootsAreOneShot ==
    [][(OBJECTS_DIRECTORY # None /\ DATASTREAMS_DIRECTORY # None)
          => /\ OBJECTS_DIRECTORY' = OBJECTS_DIRECTORY
             /\ DATASTREAMS_DIRECTORY' = DATASTREAMS_DIRECTORY]_vars

\* C29: a call of valid_source_directory that returned an error has changed
\* neither root, and a call that returned Ok has set both roots to the
\* sub-directories of its input.
RootsUnchangedOnError ==
    dirLast # <<>> =>
        IF dirLast[1].result = "Err"
        THEN /\ OBJECTS_DIRECTORY = dirLast[1].objects
             /\ DATASTREAMS_DIRECTORY = dirLast[1].datastreams
        ELSE /\ OBJECTS_DIRECTORY = Some(<<dirLast[1].path, "objects">>)
             /\ DATASTREAMS_DIRECTORY = Some(<<dirLast[1].path, "datastreams">>)


-----------------------------------------------------------------------------
(* The file walker (files, src/src/migrate/identifiers.rs and               *)
(* src/src/csv/utils.rs, the same code).  An entry of the walk is one of:   *)
(*   "file", "dir"       an entry read, whose metadata says what it is;     *)
(*   "enumerateErr"      the Err WalkDir yields when it cannot read an      *)
(*                       entry or a directory;                              *)
(*   "metadataErr"       an entry read whose metadata() fails;              *)
(*   "canonicalizeErr"   a file whose path cannot be canonicalized.         *)

\* The filter closure: entry.as_ref().map_or(false, |e|
\* e.metadata().map_or(false, |m| m.is_file()))
IsFileEntry(entry) == entry \in {"file", "canonicalizeErr"}

\* The map closure on an entry the filter kept: Ok(entry?.path().canonicalize()?)
CanonicalPath(entry) == IF entry = "file" THEN "path" ELSE "error"

\* filter and map on one entry of the walk.
WalkOutcome(entry) == IF IsFileEntry(entry) THEN CanonicalPath(entry) ELSE "filtered"

-----------------------------------------------------------------------------
(* WalkSpec: files() over a directory tree; par_bridge hands the entries    *)
(* to the tasks in any order.                                               *)

MaxEntries == 3

EntryKinds == {"file", "dir", "enumerateErr", "metadataErr", "canonicalizeErr"}

WalkInit ==
    /\ walkEntries \in UNION {[1..n -> EntryKinds] : n \in 1..MaxEntries}
    /\ walkSeen = [i \in DOMAIN walkEntries |-> "pending"]
    /\ walkPc = "walking"
    /\ walkFiles = {}
    /\ WalkRestIdle

\* One entry goes through the filter and the map.
WalkEntry(i) ==
    /\ walkPc = "walking"
    /\ walkSeen[i] = "pending"
    /\ walkSeen' = [walkSeen EXCEPT ![i] = WalkOutcome(walkEntries[i])]
    /\ UNCHANGED <<walkEntries, walkPc, walkFiles, walkRest>>

\* collect::<Result<Vec<_>, _>>() has met an Err: unwrap_or_else panics.
WalkPanic ==
    /\ walkPc = "walking"
    /\ \E i \in DOMAIN walkSeen : walkSeen[i] = "error"
    /\ walkPc' = "panicked"
    /\ UNCHANGED <<walkEntries, walkSeen, walkFiles, walkRest>>

\* Every entry went through without an Err: the paths are returned.
WalkReturn ==
    /\ walkPc = "walking"
    /\ \A i \in DOMAIN walkSeen : walkSeen[i] \in {"filtered", "path"}
    /\ walkFiles' = {i \in DOMAIN walkSeen : walkSeen[i] = "path"}
    /\ walkPc' = "returned"
    /\ UNCHANGED <<walkEntries, walkSeen, walkRest>>

WalkNext ==
    \/ \E i \in DOMAIN walkEntries : WalkEntry(i)
    \/ WalkPanic
    \/ WalkReturn

WalkSpec == WalkInit /\ [][WalkNext]_vars

-----------------------------------------------------------------------------
(* Properties of the file walker (checked under WalkSpec) *)

\* C24: the walk returns a list of files only when no entry failed to be
\* enumerated, to give its metadata or to be canonicalized: a failure aborts
\* the run, and no list is returned that leaves the failed entry out.
WalkErrorsAreFatal ==
    walkPc = "returned" =>
        \A i \in DOMAIN walkEntries : walkEntries[i] \in {"file", "dir"}


-----------------------------------------------------------------------------
(* Properties of the RELS-EXT parser on text elements (checked under        *)
(* RelsSpec)                                                                *)

\* The field of an Islandora integer predicate, "" for any other element.
IntegerField(name) ==
    CASE name = "islandora:isPageNumber" -> "isPageNumber"
      [] name = "islandora:isSection" -> "isSection"
      [] name = "islandora:isSequenceNumber" -> "isSequenceNumber"
      [] OTHER -> ""

\* The text without its non-digit characters, parsed: None without digits.
LenientInteger(text) ==
    LET IsDigit(c) == c \in Digits
        digits == SelectSeq(text, IsDigit)
    IN  IF digits = <<>> THEN None ELSE Some(DigitsValue(0, digits))

\* A step of the parser that reads one more element.
ReadsElement == Len(elements') = Len(elements) + 1

\* C25: reading an isPageNumber, isSection or isSequenceNumber element never
\* aborts, and sets the field to the integer made of the digits of the text
\* ("001a" gives Some(1)), None when the text has no digit.
IntegerPredicatesLenient ==
    [][(ReadsElement /\ IntegerField(Last(elements').name) # "")
          => /\ relsPhase' # "panic"
             /\ rels_ext'[IntegerField(Last(elements').name)]
                    = LenientInteger(Last(elements').text)]_vars

\* An element process_element has no arm for.
Unrecognised(e) ==
    /\ e.name # "rdf:Description"
    /\ ListField(e.name) = ""
    /\ IntegerField(e.name) = ""
    /\ e.name \notin {"islandora:deferDerivatives", "islandora:generate_hocr",
                      "islandora:generate_ocr", "islandora:isPageOf"}

\* The rest of a local name after isSequenceNumberOf, <<>> when it does not
\* start with it.
SequenceSuffix(e) ==
    IF IsPrefix(IsSequenceNumberOfPrefix, e.local)
    THEN SubSeq(e.local, Len(IsSequenceNumberOfPrefix) + 1, Len(e.local))
    ELSE <<>>

\* The integer value of a text, 0 when it is not an integer.
IntegerOrZero(text) == IF ParseUsize(text) = None THEN 0 ELSE ParseUsize(text)[1]

\* C26: reading an unrecognised element whose local name is
\* isSequenceNumberOf followed by a non-empty suffix appends (suffix with
\* its first '_' replaced by ':', value of the text, 0 when the text is not
\* an integer) to isSequenceNumberOf and changes nothing else; reading any
\* other unrecognised element leaves the RelsExt unchanged.
SequenceNumberOfAppended ==
    [][(ReadsElement /\ Unrecognised(Last(elements')))
          => /\ relsPhase' # "panic"
             /\ rels_ext' =
                   IF SequenceSuffix(Last(elements')) # <<>>
                   THEN [rels_ext EXCEPT !.isSequenceNumberOf =
                            Append(@, <<ReplaceFirst(SequenceSuffix(Last(elements')), "_", ":"),
                                        IntegerOrZero(Last(elements').text)>>)]
                   ELSE rels_ext]_vars


-----------------------------------------------------------------------------
(* The lock of the object map (run_scripts and the host function "object"   *)
(* of create_engine, src/src/csv/scripts.rs).  The RwLock is                *)
(* [readers, writer]: the number of read guards alive and whether a write   *)
(* guard is.                                                                *)

NewRwLock == [readers |-> 0, writer |-> FALSE]

\* RwLock::read returns when no write guard is alive.
CanRead(lock) == ~lock.writer

\* RwLock::write, taken where the code takes read.
WriteGuard(lock) == [lock EXCEPT !.writer = TRUE]

\* The guard RwLock::read returns.
ReadGuard(lock) == [lock EXCEPT !.readers = @ + 1]

\* Drop of a read guard.
DropReadGuard(lock) == [lock EXCEPT !.readers = @ - 1]

\* The closure registered as "object": the clone of the object of the pid,
\* or the error.
HostObject(objects, pid) ==
    IF pid \in objects THEN [outcome |-> "Ok", value |-> pid]
    ELSE [outcome |-> "Err", value |-> "Failed to find object"]

-----------------------------------------------------------------------------
(* LockSpec: the thread of run_scripts runs the scripts in parallel.        *)

MaxHostCalls == 2

LockScripts == {"s1", "s2", "s3"}

LockPids == {"a:1", "a:2"}

LockInit ==
    /\ sharedObjects \in SUBSET LockPids
    /\ rwLock = NewRwLock
    /\ scriptTask = [s \in LockScripts |-> "queued"]
    /\ hostCalls \in [LockScripts -> 0..MaxHostCalls]
    /\ hostResult = [s \in LockScripts |-> None]
    /\ lockPc = "running"
    /\ LockRestIdle

\* The map closure of a script: arc.read(), held while execute_script runs.
ScriptRead(s) ==
    /\ scriptTask[s] = "queued"
    /\ CanRead(rwLock)
    /\ rwLock' = ReadGuard(rwLock)
    /\ scriptTask' = [scriptTask EXCEPT ![s] = "executing"]
    /\ UNCHANGED <<sharedObjects, hostCalls, hostResult, lockPc, lockRest>>

\* A statement of the script calls object(pid): objects.read() in the host
\* function.
HostRead(s) ==
    /\ scriptTask[s] = "executing"
    /\ hostCalls[s] > 0
    /\ CanRead(rwLock)
    /\ rwLock' = ReadGuard(rwLock)
    /\ scriptTask' = [scriptTask EXCEPT ![s] = "host"]
    /\ UNCHANGED <<sharedObjects, hostCalls, hostResult, lockPc, lockRest>>

\* The host function looks the pid up, clones the object and returns: its
\* guard is dropped.
HostReturn(s) ==
    /\ scriptTask[s] = "host"
    /\ \E pid \in LockPids :
          hostResult' = [hostResult EXCEPT ![s] = Some(HostObject(sharedObjects, pid))]
    /\ rwLock' = DropReadGuard(rwLock)
    /\ hostCalls' = [hostCalls EXCEPT ![s] = @ - 1]
    /\ scriptTask' = [scriptTask EXCEPT ![s] = "executing"]
    /\ UNCHANGED <<sharedObjects, lockPc, lockRest>>

\* execute_script returns and the guard of the map closure is dropped.
ScriptExecuted(s) ==
    /\ scriptTask[s] = "executing"
    /\ hostCalls[s] = 0
    /\ rwLock' = DropReadGuard(rwLock)
    /\ scriptTask' = [scriptTask EXCEPT ![s] = "executed"]
    /\ UNCHANGED <<sharedObjects, hostCalls, hostResult, lockPc, lockRest>>

\* The results are collected; create_csv writes the file of a script.
ScriptWritten(s) ==
    /\ \A t \in LockScripts : scriptTask[t] \in {"executed", "written"}
    /\ scriptTask[s] = "executed"
    /\ scriptTask' = [scriptTask EXCEPT ![s] = "written"]
    /\ UNCHANGED <<sharedObjects, rwLock, hostCalls, hostResult, lockPc, lockRest>>

\* thread.join(): run_scripts returns.
ThreadJoin ==
    /\ lockPc = "running"
    /\ \A t \in LockScripts : scriptTask[t] = "written"
    /\ lockPc' = "joined"
    /\ UNCHANGED <<sharedObjects, rwLock, scriptTask, hostCalls, hostResult, lockRest>>

LockNext ==
    \/ \E s \in LockScripts :
          \/ ScriptRead(s)
          \/ HostRead(s)
          \/ HostReturn(s)
          \/ ScriptExecuted(s)
          \/ ScriptWritten(s)
    \/ ThreadJoin

LockSpec == LockInit /\ [][LockNext]_vars

-----------------------------------------------------------------------------
(* Properties of the lock of the object map (checked under LockSpec) *)

\* A script task that is about to take a read lock.
WantsRead(s) ==
    \/ scriptTask[s] = "queued"
    \/ scriptTask[s] = "executing" /\ hostCalls[s] > 0

\* C22: from the start of run_scripts to its return no write guard of the
\* map is alive, the map is never changed by a step, every task that wants a
\* read lock, for its script or inside object(pid) while it holds one, can
\* take it at once, and the guards alive are those of the running tasks.
ObjectMapSharedReadOnly ==
    /\ ~rwLock.writer
    /\ \A s \in LockScripts : WantsRead(s) => ENABLED (ScriptRead(s) \/ HostRead(s))
    /\ rwLock.readers =
          Cardinality({s \in LockScripts : scriptTask[s] \in {"executing", "host"}})
              + Cardinality({s \in LockScripts : scriptTask[s] = "host"})
    /\ lockPc = "joined" => rwLock.readers = 0

\* Two scripts are inside object(pid) at once, each holding two read guards,
\* while a third waits for its first.
ObjectMapSharedReadOnlyWitness ==
    /\ scriptTask["s1"] = "host"
    /\ scriptTask["s2"] = "host"
    /\ scriptTask["s3"] = "queued"
    /\ rwLock.readers = 4
    /\ sharedObjects # {}


-----------------------------------------------------------------------------
(* Determinism of graph assembly (checked under Spec) *)

\* The ids of a sequence of [id, ..] never go down under the alphanumeric
\* order.
Ascending(s) ==
    \A i, j \in 1..Len(s) : i < j => compare_str(s[i].id, s[j].id) # "Greater"

\* C23: whatever the order in which the parse tasks ran, the result of every
\* file is the one its content gives, and the map collected holds, for every
\* PID kept, the object of the last file of the batch with that PID, the
\* objects strictly ascending by PID, the datastreams of each ascending by
\* id and the versions of each datastream ascending by id.
AssemblyIsDeterministic ==
    /\ \A i \in 1..Len(results) :
          results[i] \in {Pending, FilterResult(ObjectFromPath(objectFiles[i]))}
    /\ Assembled =>
          /\ Len(objectMap) = Cardinality(KeptPids)
          /\ \A i \in 1..Len(objectMap) :
                /\ objectMap[i].id \in KeptPids
                /\ objectMap[i].value = results[LastKept(objectMap[i].id)].value
                /\ Ascending(objectMap[i].value.datastreams)
                /\ \A d \in 1..Len(objectMap[i].value.datastreams) :
                      Ascending(objectMap[i].value.datastreams[d].versions)
          /\ \A i, j \in 1..Len(objectMap) :
                i < j => compare_str(objectMap[i].id, objectMap[j].id) = "Less"

\* The batch lists a:10 before a:2, and in the file of a:2 OBJ before
\* RELS-EXT and OBJ.10 before OBJ.2; the map has a:2 first, with RELS-EXT
\* after OBJ and OBJ.10 last.
AssemblyIsDeterministicWitness ==
    /\ Assembled
    /\ Len(objectFiles) = 2
    /\ objectFiles[1].foxml.pid = PidA10
    /\ objectFiles[2].foxml.pid = PidA2
    /\ Len(objectFiles[2].foxml.datastreams[1].versions) = 3
    /\ Len(objectMap) = 2
    /\ objectMap[1].id = PidA2
    /\ objectMap[1].value.datastreams[1].id = ObjId
    /\ Last(objectMap[1].value.datastreams[1].versions).id = VersionId(ObjId, 10)


-----------------------------------------------------------------------------
(* Termination of the inline extractor (checked under InlineLiveSpec) *)

\* C27: extract_inline_datastreams ends on every FOXML document, by
\* returning its results or by a panic, also when an inline datastream
\* version has no foxml:xmlContent element; it never stays in the loop of
\* extract_inline_datastream_version reading the end of the file.
InlineExtractionTerminates == <>(inlinePc \in {"done", "panic"})


-----------------------------------------------------------------------------
(* StoreSpec: identify_files::<ObjectIdentifier> is executed twice on the   *)
(* same objectStore (src/src/migrate/identifiers.rs); in each execution     *)
(* the tasks of into_par_iter().for_each run in any order, each inserting   *)
(* under the mutex of the map.                                              *)

Executions == {1, 2}

\* The files of the store: a_1:1 under its name with %5F and under its name
\* with '_', a:1, and a file that is not named after an identifier.
ObjectStoreChoices ==
    {ObjectFileName(<<"a", "_", "1">>, <<"1">>),
     InfoFedora \o <<"a", "_", "1">> \o EncodedColon \o <<"1">>,
     ObjectFileName(<<"a">>, <<"1">>),
     InfoFedora \o <<"a">>}

StoreInit ==
    /\ storeFiles \in SUBSET ObjectStoreChoices
    /\ taskDone = [x \in Executions |-> {}]
    /\ pathMaps = [x \in Executions |-> <<>>]
    /\ failedPaths = [x \in Executions |-> {}]
    /\ returned = [x \in Executions |-> FALSE]
    /\ StoreRestIdle

\* The closure of for_each on one file: from_path, then the insert into the
\* map or the push onto the failed paths.
IdentifyTask(x, file) ==
    /\ ~returned[x]
    /\ file \in storeFiles \ taskDone[x]
    /\ taskDone' = [taskDone EXCEPT ![x] = @ \cup {file}]
    /\ \E id \in {ObjectIdentifierFromPath(file)} :
          IF id = None
          THEN /\ failedPaths' = [failedPaths EXCEPT ![x] = @ \cup {file}]
               /\ UNCHANGED pathMaps
          ELSE /\ pathMaps' = [pathMaps EXCEPT ![x] = BTreeMapInsert(@, id[1].pid, file)]
               /\ UNCHANGED failedPaths
    /\ UNCHANGED <<storeFiles, returned, storeRest>>

\* Every task has run: the unidentified files are warned about and the map
\* is returned.
IdentifyFilesReturn(x) ==
    /\ ~returned[x]
    /\ taskDone[x] = storeFiles
    /\ returned' = [returned EXCEPT ![x] = TRUE]
    /\ UNCHANGED <<storeFiles, taskDone, pathMaps, failedPaths, storeRest>>

StoreNext ==
    \E x \in Executions :
        \/ \E file \in storeFiles : IdentifyTask(x, file)
        \/ IdentifyFilesReturn(x)

StoreSpec == StoreInit /\ [][StoreNext]_vars

-----------------------------------------------------------------------------
(* Properties of identify_files (checked under StoreSpec) *)

\* C28: two executions of identify_files on the same store return the same
\* map whatever the order of their tasks, also when two files of the store
\* decode to the same identifier.
IdentifyFilesScheduleIndependent ==
    (returned[1] /\ returned[2]) => pathMaps[1] = pathMaps[2]


-----------------------------------------------------------------------------
(* PoolSpec: generate_csvs spawns the four projectors on the thread pool    *)
(* and waits on their progress bars (src/src/csv/lib.rs, rows.rs). The      *)
(* spawned tasks start and advance in any order, interleaved with the       *)
(* caller; a panic anywhere runs the hook of main.rs, which exits.          *)

\* The projectors, in the order generate_csvs spawns them.
SpawnOrder == <<"files", "media", "media_revisions", "nodes">>
Projectors == {SpawnOrder[i] : i \in 1..Len(SpawnOrder)}

MaxRows == 1

NoFileYet == [exists |-> FALSE, open |-> FALSE, rows |-> 0]

\* MultiProgress::join_and_clear returns once every bar added to it is done;
\* with no wait at all it would return at once.
JoinWithoutWaiting(bs) == TRUE
join_and_clear(bs) == \A p \in DOMAIN bs : bs[p] # "active"

\* The number of projectors generate_csvs has spawned.
Spawned == Cardinality({p \in Projectors : bars[p] # "none"})

PoolInit ==
    /\ poolPc = "spawning"
    /\ taskPc = [p \in Projectors |-> "unspawned"]
    /\ csvRows \in [Projectors -> 0..MaxRows]
    /\ csvFiles = [p \in Projectors |-> NoFileYet]
    /\ bars = [p \in Projectors |-> "none"]
    /\ PoolRestIdle

\* generate_csvs: multi.add(logger::progress_bar(count)), then rayon::spawn
\* of the next projector.
Spawn ==
    /\ poolPc = "spawning"
    /\ \E p \in {SpawnOrder[Spawned + 1]} :
          /\ bars' = [bars EXCEPT ![p] = "active"]
          /\ taskPc' = [taskPc EXCEPT ![p] = "queued"]
    /\ poolPc' = IF Spawned + 1 = Len(SpawnOrder) THEN "joining" ELSE "spawning"
    /\ UNCHANGED <<csvRows, csvFiles, poolRest>>

\* A thread of the pool takes the task: set_length, then the rows are
\* collected (inc(1) for each).
CollectRows(p) ==
    /\ poolPc # "exited"
    /\ taskPc[p] = "queued"
    /\ taskPc' = [taskPc EXCEPT ![p] = "rows"]
    /\ UNCHANGED <<poolPc, csvRows, csvFiles, bars, poolRest>>

\* create_csv: builder.from_path(&dest) creates the file.
CreateCsvOpen(p) ==
    /\ poolPc # "exited"
    /\ taskPc[p] = "rows"
    /\ csvFiles' = [csvFiles EXCEPT ![p] = [exists |-> TRUE, open |-> TRUE, rows |-> 0]]
    /\ taskPc' = [taskPc EXCEPT ![p] = "writing"]
    /\ UNCHANGED <<poolPc, csvRows, bars, poolRest>>

\* create_csv: writer.serialize(row) for the next row.
CreateCsvSerialize(p) ==
    /\ poolPc # "exited"
    /\ taskPc[p] = "writing"
    /\ csvFiles[p].rows < csvRows[p]
    /\ csvFiles' = [csvFiles EXCEPT ![p].rows = @ + 1]
    /\ UNCHANGED <<poolPc, taskPc, csvRows, bars, poolRest>>

\* create_csv returns Ok(()): the writer is dropped, which closes the file.
CreateCsvReturn(p) ==
    /\ poolPc # "exited"
    /\ taskPc[p] = "writing"
    /\ csvFiles[p].rows = csvRows[p]
    /\ csvFiles' = [csvFiles EXCEPT ![p].open = FALSE]
    /\ taskPc' = [taskPc EXCEPT ![p] = "created"]
    /\ UNCHANGED <<poolPc, csvRows, bars, poolRest>>

\* progress_bar.finish_with_message, the last statement of the projector.
FinishWithMessage(p) ==
    /\ poolPc # "exited"
    /\ taskPc[p] = "created"
    /\ bars' = [bars EXCEPT ![p] = "done"]
    /\ taskPc' = [taskPc EXCEPT ![p] = "finished"]
    /\ UNCHANGED <<poolPc, csvRows, csvFiles, poolRest>>

\* A row constructor panics, or create_csv returns an Err and expect
\* panics: the hook exits the process before anything is dropped.
ProjectorPanics(p) ==
    /\ poolPc # "exited"
    /\ taskPc[p] \in {"queued", "rows", "writing"}
    /\ poolPc' = "exited"
    /\ UNCHANGED <<taskPc, csvRows, csvFiles, bars, poolRest>>

\* multi.join_and_clear().unwrap() returns, and generate_csvs with it.
JoinAndClear ==
    /\ poolPc = "joining"
    /\ join_and_clear(bars)
    /\ poolPc' = "returned"
    /\ UNCHANGED <<taskPc, csvRows, csvFiles, bars, poolRest>>

PoolNext ==
    \/ Spawn
    \/ \E p \in Projectors :
          \/ CollectRows(p)
          \/ CreateCsvOpen(p)
          \/ CreateCsvSerialize(p)
          \/ CreateCsvReturn(p)
          \/ FinishWithMessage(p)
          \/ ProjectorPanics(p)
    \/ JoinAndClear

PoolSpec == PoolInit /\ [][PoolNext]_vars

-----------------------------------------------------------------------------
(* Properties of generate_csvs' wait (checked under PoolSpec) *)

CompletelyWritten(p) ==
    /\ csvFiles[p].exists
    /\ ~csvFiles[p].open
    /\ csvFiles[p].rows = csvRows[p]

\* C30: generate_csvs has not returned unless each of the four projectors
\* has written all its rows and closed its file, whatever the order in which
\* the tasks started and finished; and a projector's progress bar is done
\* only when its file is completely written.
GenerateCsvsWaitsForProjectors ==
    /\ poolPc = "returned" => \A p \in Projectors : CompletelyWritten(p)
    /\ \A p \in Projectors : bars[p] = "done" => CompletelyWritten(p)

\* generate_csvs has returned and every projector had rows to write.
GenerateCsvsWaitsForProjectorsWitness ==
    /\ poolPc = "returned"
    /\ \A p \in Projectors : csvRows[p] = MaxRows /\ csvFiles[p].rows = MaxRows

=============================================================================
